---- MODULE Spec2Model ----
(***************************************************************************)
(* Model of the computational core of strat-eng: the vectorised backtest   *)
(* (src/openopt_riskengine/backtesting/engine.py) and the signal           *)
(* generators (src/openopt_riskengine/strategies, src/strategies).         *)
(*                                                                         *)
(* A pandas DataFrame is a record [n |-> row count, col |-> function from  *)
(* column names to sequences of length n].  A float is an exact rational   *)
(* <<num, den>> in lowest terms with den > 0; <<0, 0>> is NaN.  Rounding   *)
(* of IEEE doubles is not modelled: every equality below is exact.         *)
(***************************************************************************)
EXTENDS Integers, Sequences, FiniteSets, TLC

VARIABLES
    df,           \* the caller's DataFrame (the argument of the call)
    params,       \* the keyword arguments / constructor parameters of the call
    fill_method,  \* what Series.pct_change does with missing prices in this build
    pc,           \* "ready" | "returned" | "raised"
    op,           \* the operation that was called
    exc,          \* the exception that left the call ("none" when it returned)
    work,         \* the callee's local DataFrame as the call left it
    ret           \* the value handed back to the caller

vars == <<df, params, fill_method, pc, op, exc, work, ret>>

----------------------------------------------------------------------------
(* Bounds of the model.                                                    *)

\* longest price series given to run_backtest
MaxLen == 3
\* longest price series given to a signal generator
MaxSigLen == 4
\* largest moving-average window, look-back or RSI period
MaxWindow == 3

----------------------------------------------------------------------------
(* Floats as exact rationals.                                              *)

NaN == <<0, 0>>
Zero == <<0, 1>>
One == <<1, 1>>
\* the two infinities of IEEE doubles: a non-zero number divided by zero
PosInf == <<1, 0>>
NegInf == <<-1, 0>>

IsNaN(x) == x[2] = 0 /\ x[1] = 0
NotNa(x) == x[2] # 0 \/ x[1] # 0
IsFinite(x) == x[2] # 0

Abs(i) == IF i < 0 THEN -i ELSE i

RECURSIVE Gcd(_, _)
Gcd(a, b) == IF b = 0 THEN a ELSE Gcd(b, a % b)

\* n/d in lowest terms; with a zero denominator the result is 0/0 = NaN or
\* an infinity with the sign of the numerator (the sign of a zero is not
\* modelled: every zero is +0.0)
Norm(n, d) ==
    IF d = 0 THEN (IF n = 0 THEN NaN ELSE IF n < 0 THEN NegInf ELSE PosInf)
    ELSE LET g == Gcd(Abs(n), Abs(d))
             s == IF d < 0 THEN -1 ELSE 1
         IN  <<(s * n) \div g, (s * d) \div g>>

R(i) == <<i, 1>>

RAdd(a, b) == IF IsNaN(a) \/ IsNaN(b) THEN NaN
              ELSE IF a[2] = 0 /\ b[2] = 0 THEN (IF a = b THEN a ELSE NaN)
              ELSE Norm(a[1] * b[2] + b[1] * a[2], a[2] * b[2])
RNeg(a) == IF IsNaN(a) THEN NaN ELSE <<-a[1], a[2]>>
RSub(a, b) == RAdd(a, RNeg(b))
RMul(a, b) == IF IsNaN(a) \/ IsNaN(b) THEN NaN
              ELSE Norm(a[1] * b[1], a[2] * b[2])
RDiv(a, b) == IF IsNaN(a) \/ IsNaN(b) THEN NaN
              ELSE IF b[1] < 0 THEN Norm(-(a[1] * b[2]), a[2] * (-b[1]))
              ELSE Norm(a[1] * b[2], a[2] * b[1])
RAbs(a) == IF IsNaN(a) THEN NaN ELSE <<Abs(a[1]), a[2]>>

\* comparisons; any comparison with NaN is false, as for IEEE doubles
RLt(a, b) == NotNa(a) /\ NotNa(b) /\ a[1] * b[2] < b[1] * a[2]
RLe(a, b) == NotNa(a) /\ NotNa(b) /\ a[1] * b[2] <= b[1] * a[2]
RGt(a, b) == RLt(b, a)
RMax(a, b) == IF RLt(a, b) THEN b ELSE a
RMin(a, b) == IF RLt(b, a) THEN b ELSE a

----------------------------------------------------------------------------
(* pandas Series operations, on sequences of floats.                       *)

\* Series.fillna(v)
FillNa(s, v) == [t \in 1..Len(s) |-> IF IsNaN(s[t]) THEN v ELSE s[t]]

\* Series.shift(k), k >= 0: row t takes the value of row t-k
Shift(s, k) == [t \in 1..Len(s) |-> IF t - k >= 1 THEN s[t - k] ELSE NaN]

\* Series.diff(): s - s.shift(1)
Diff(s) ==
    LET prev == Shift(s, 1)
    IN  [t \in 1..Len(s) |-> RSub(s[t], prev[t])]

\* forward fill (fill_method="pad"): the last value seen so far
RECURSIVE FFillAt(_, _)
FFillAt(s, t) ==
    IF t = 0 THEN NaN
    ELSE IF NotNa(s[t]) THEN s[t] ELSE FFillAt(s, t - 1)

FFill(s) == [t \in 1..Len(s) |-> FFillAt(s, t)]

\* Series.pct_change(periods): data / data.shift(periods) - 1, where data is
\* the series forward-filled first when the build's default is "pad"
PctChange(s, periods, fill) ==
    LET data == IF fill = "pad" THEN FFill(s) ELSE s
        prev == Shift(data, periods)
    IN  [t \in 1..Len(s) |-> RSub(RDiv(data[t], prev[t]), One)]

\* Series.cumprod(): NaN rows are skipped (their output is NaN)
RECURSIVE CumProdAt(_, _)
CumProdAt(s, t) ==
    IF t = 0 THEN One
    ELSE IF IsNaN(s[t]) THEN CumProdAt(s, t - 1)
    ELSE RMul(CumProdAt(s, t - 1), s[t])

CumProd(s) ==
    [t \in 1..Len(s) |-> IF IsNaN(s[t]) THEN NaN ELSE CumProdAt(s, t)]

\* Series.cummax()
RECURSIVE CumMaxAt(_, _)
CumMaxAt(s, t) ==
    IF t = 1 THEN s[1]
    ELSE LET prev == CumMaxAt(s, t - 1)
         IN  IF IsNaN(s[t]) THEN prev
             ELSE IF IsNaN(prev) THEN s[t]
             ELSE RMax(prev, s[t])

CumMax(s) ==
    [t \in 1..Len(s) |-> IF IsNaN(s[t]) THEN NaN ELSE CumMaxAt(s, t)]

\* Series.sum() and Series.min(): NaN values are skipped
RECURSIVE SumTo(_, _)
SumTo(s, t) ==
    IF t = 0 THEN Zero
    ELSE IF IsNaN(s[t]) THEN SumTo(s, t - 1)
    ELSE RAdd(SumTo(s, t - 1), s[t])

SeriesSum(s) == SumTo(s, Len(s))

RECURSIVE MinTo(_, _)
MinTo(s, t) ==
    IF t = 0 THEN NaN
    ELSE LET prev == MinTo(s, t - 1)
         IN  IF IsNaN(s[t]) THEN prev
             ELSE IF IsNaN(prev) THEN s[t]
             ELSE RMin(prev, s[t])

SeriesMin(s) == MinTo(s, Len(s))

----------------------------------------------------------------------------
(* DataFrames.                                                             *)

Frame(n, cols) == [n |-> n, col |-> cols]

Columns(d) == DOMAIN d.col

\* df[name] = series
SetCol(d, name, s) == [d EXCEPT !.col = (name :> s) @@ d.col]

\* no copy: the callee writes to the caller's object
DfAlias(d) == [frame |-> d, shared |-> TRUE]

\* DataFrame.copy(): a new object; writes to it do not reach the original
DfCopy(d) == [frame |-> d, shared |-> FALSE]

----------------------------------------------------------------------------
(* run_backtest (backtesting/engine.py).  Rows are numbered from 1 here,   *)
(* so row t of the source is index t + 1.                                  *)

\* mutant: the validation forgets the signal column
HasCloseColumn(d) == "Close" \in Columns(d)

\* line 33: both required columns are present
HasRequiredColumns(d) == "Close" \in Columns(d) /\ "signal" \in Columns(d)

\* price returns that look one row ahead: the return of the coming period
ReturnsAhead(d, fill) ==
    LET r == FillNa(PctChange(d.col["Close"], 1, fill), Zero)
    IN  [t \in 1..Len(r) |-> IF t < Len(r) THEN r[t + 1] ELSE Zero]

\* line 37: price returns; the first-period return is 0
Returns(d, fill) == FillNa(PctChange(d.col["Close"], 1, fill), Zero)

\* line 40: desired position
Position(d) == FillNa(d.col["signal"], Zero)

\* mutant: no execution lag, the exposure is the same row's signal
ExecutedPosNoLag(position) == position

\* mutant: the exposure lags by two rows
ExecutedPosLagTwo(position) == FillNa(Shift(position, 2), Zero)

\* line 41: executed exposure is the prior row's desired position
ExecutedPos(position) == FillNa(Shift(position, 1), Zero)

\* mutant: the gross return ignores the exposure
StrategyReturnsUnexposed(returns, executed_pos) == returns

\* line 44: gross strategy returns
StrategyReturns(returns, executed_pos) ==
    [t \in 1..Len(returns) |-> RMul(returns[t], executed_pos[t])]

\* line 49: change of the desired position
PosChange(position) == FillNa(Diff(position), Zero)

\* mutant: the change is charged on the day it is decided
ExecutedChangeNoShift(pos_change) == pos_change

\* line 50: the change that is executed on a row
ExecutedChange(pos_change) == FillNa(Shift(pos_change, 1), Zero)

\* line 51
Trade(executed_change) ==
    [t \in 1..Len(executed_change) |-> RAbs(executed_change[t])]

\* a traded notional of half the capital per unit of change
TradeValueHalf(capital, trade) ==
    [t \in 1..Len(trade) |-> RMul(RMul(capital, <<1, 2>>), trade[t])]

\* line 54: approximate traded notional
TradeValue(capital, trade) ==
    [t \in 1..Len(trade) |-> RMul(capital, trade[t])]

\* line 57
TradeEvent(trade) ==
    [t \in 1..Len(trade) |-> IF RGt(trade[t], Zero) THEN One ELSE Zero]

\* mutant: the proportional commission is dropped
TradeCostFlatOnly(trade_event, trade_value, cpt, cpct) ==
    [t \in 1..Len(trade_event) |->
        RMul(trade_event[t], cpt)]

\* lines 60-62
TradeCost(trade_event, trade_value, commission_per_trade, commission_pct) ==
    [t \in 1..Len(trade_event) |->
        RAdd(RMul(trade_event[t], commission_per_trade),
             RMul(commission_pct, trade_value[t]))]

\* line 65
CostReturn(trade_cost, capital) ==
    [t \in 1..Len(trade_cost) |-> RDiv(trade_cost[t], capital)]

\* line 68
NetStrategyReturns(strategy_returns, cost_return) ==
    [t \in 1..Len(strategy_returns) |->
        RSub(strategy_returns[t], cost_return[t])]

\* mutant: returns are added up instead of compounded
EquityCurveSimple(capital, net) ==
    [t \in 1..Len(net) |-> RMul(capital, RAdd(One, SumTo(net, t)))]

\* line 71
EquityCurve(capital, net) ==
    LET growth == CumProd([t \in 1..Len(net) |-> RAdd(One, net[t])])
    IN  [t \in 1..Len(net) |-> RMul(capital, growth[t])]

\* mutant: the decline is measured from the first equity, not from the peak
DrawdownFromStart(equity) ==
    [t \in 1..Len(equity) |->
        RDiv(RSub(equity[t], equity[1]), equity[1])]

\* lines 79-81
Drawdown(equity) ==
    LET running_max == CumMax(equity)
    IN  [t \in 1..Len(equity) |->
            RDiv(RSub(equity[t], running_max[t]), running_max[t])]

MaxDrawdown(equity) == SeriesMin(Drawdown(equity))

\* lines 40-71 on a frame that already holds "returns": the frame with every
\* per-day column, and the two local series that are not stored in it
BacktestColumns(d, p) ==
    LET position == Position(d)
        executed_pos == ExecutedPos(position)
        strategy_returns == StrategyReturns(d.col["returns"], executed_pos)
        executed_change == ExecutedChange(PosChange(position))
        trade == Trade(executed_change)
        trade_value == TradeValue(p.capital, trade)
        trade_event == TradeEvent(trade)
        trade_cost == TradeCost(trade_event, trade_value,
                                p.commission_per_trade, p.commission_pct)
        cost_return == CostReturn(trade_cost, p.capital)
        net == NetStrategyReturns(strategy_returns, cost_return)
        equity == EquityCurve(p.capital, net)
        d1 == SetCol(d, "strategy_returns", strategy_returns)
        d2 == SetCol(d1, "trade", trade)
        d3 == SetCol(d2, "trade_event", trade_event)
        d4 == SetCol(d3, "trade_cost", trade_cost)
        d5 == SetCol(d4, "cost_return", cost_return)
        d6 == SetCol(d5, "net_strategy_returns", net)
    IN  [frame |-> SetCol(d6, "equity_curve", equity),
         executed_pos |-> executed_pos,
         executed_change |-> executed_change]

NoReturn == [kind |-> "none"]

----------------------------------------------------------------------------
(* risk/measures.py: value_at_risk, conditional_value_at_risk and          *)
(* expected_shortfall.  A sample is [kind, vals]: kind is the Python type  *)
(* of the argument ("list", "ndarray", or "other" for anything else, such  *)
(* as a tuple or a pandas Series) and vals are its elements.               *)

Sample(kind, vals) == [kind |-> kind, vals |-> vals]

\* Series.dropna()
DropNa(s) == SelectSeq(s, NotNa)

\* the position of the first smallest element of a non-empty sequence
RECURSIVE ArgMin(_, _)
ArgMin(s, t) ==
    IF t = 1 THEN 1
    ELSE LET m == ArgMin(s, t - 1)
         IN  IF RLt(s[t], s[m]) THEN t ELSE m

\* s without its element at position k
RemoveAt(s, k) == SubSeq(s, 1, k - 1) \o SubSeq(s, k + 1, Len(s))

\* the elements of s in ascending order
RECURSIVE Sorted(_)
Sorted(s) ==
    IF s = <<>> THEN <<>>
    ELSE LET k == ArgMin(s, Len(s))
         IN  <<s[k]>> \o Sorted(RemoveAt(s, k))

\* the integer part of a rational x >= 0
Floor(x) == x[1] \div x[2]

\* a + (b - a) * t
Lerp(a, b, t) == RAdd(a, RMul(RSub(b, a), t))

\* interpolation between positions in the order the sample was given
PercentileUnsorted(a, q) ==
    LET n == Len(a)
        index == RDiv(RMul(R(n - 1), q), R(100))
        lo == Floor(index)
        hi == IF lo + 1 > n - 1 THEN n - 1 ELSE lo + 1
    IN  Lerp(a[lo + 1], a[hi + 1], RSub(index, R(lo)))

\* np.percentile(a, q) for a non-empty a and 0 <= q <= 100, method "linear":
\* the value at the virtual index (n - 1) * q / 100 of the sorted sample
Percentile(a, q) ==
    IF \E t \in 1..Len(a) : IsNaN(a[t]) THEN NaN
    ELSE LET n == Len(a)
             arr == Sorted(a)
             index == RDiv(RMul(R(n - 1), q), R(100))
             lo == Floor(index)
             hi == IF lo + 1 > n - 1 THEN n - 1 ELSE lo + 1
         IN  Lerp(arr[lo + 1], arr[hi + 1], RSub(index, R(lo)))

\* ndarray.mean() of a non-empty array without missing values
Mean(a) == RDiv(SumTo(a, Len(a)), R(Len(a)))

FloatValue(x) == [kind |-> "float", value |-> x]

\* how a call of a risk function ends
Raises(e) == [pc |-> "raised", exc |-> e, ret |-> NoReturn]
Gives(x) == [pc |-> "returned", exc |-> "none", ret |-> FloatValue(x)]

\* a check that lets every argument through
IsAnything(returns) == returns.kind \in {"list", "ndarray", "other"}

\* isinstance(returns, (list, np.ndarray)), lines 15 and 35
IsListOrArray(returns) == returns.kind \in {"list", "ndarray"}

\* value_at_risk(returns, confidence_level)
value_at_risk(returns, confidence_level) ==
    IF ~IsListOrArray(returns) THEN Raises("ValueError")
    ELSE IF Len(returns.vals) = 0 THEN Raises("ValueError")
    ELSE Gives(RNeg(Percentile(returns.vals,
                      RMul(RSub(One, confidence_level), R(100)))))

\* returns <= -var, line 42: an elementwise comparison, also for a list
\* (the comparison is carried out by the numpy scalar -var)
TailMask(returns, var) ==
    [t \in 1..Len(returns.vals) |->
        NotNa(returns.vals[t]) /\ NotNa(var)
        /\ RLe(returns.vals[t], RNeg(var))]

\* returns[mask], line 42: boolean-mask selection of an ndarray
MaskSelect(vals, mask) ==
    LET Keep(k) == mask[k]
        idx == SelectSeq([k \in 1..Len(vals) |-> k], Keep)
    IN  [j \in 1..Len(idx) |-> vals[idx[j]]]

\* conditional_value_at_risk(returns, confidence_level)
conditional_value_at_risk(returns, confidence_level) ==
    IF ~IsListOrArray(returns) THEN Raises("ValueError")
    ELSE IF Len(returns.vals) = 0 THEN Raises("ValueError")
    ELSE LET v == value_at_risk(returns, confidence_level)
         IN  IF v.pc = "raised" THEN v
             ELSE LET mask == TailMask(returns, v.ret.value)
                  IN  IF \E t \in 1..Len(mask) : mask[t]      \* np.any
                      THEN IF returns.kind = "list"
                           \* a list cannot be indexed by a boolean array
                           THEN Raises("TypeError")
                           ELSE Gives(RNeg(Mean(
                                    MaskSelect(returns.vals, mask))))
                      ELSE Gives(Zero)

\* expected_shortfall(returns, confidence_level), lines 45-56
expected_shortfall(returns, confidence_level) ==
    conditional_value_at_risk(returns, confidence_level)

\* engine.py lines 97-104: VaR and CVaR at 95% of the net returns with the
\* missing ones dropped; any exception of either call gives NaN for both
RiskMetrics(net) ==
    LET returns_arr == Sample("ndarray", DropNa(net))
        v == value_at_risk(returns_arr, <<19, 20>>)
        cv == conditional_value_at_risk(returns_arr, <<19, 20>>)
    IN  IF v.pc = "raised" \/ cv.pc = "raised"
        THEN [var_95 |-> NaN, cvar_95 |-> NaN]
        ELSE [var_95 |-> v.ret.value, cvar_95 |-> cv.ret.value]

\* the default of the argument periods_per_year
periods_per_year == 252

\* Series.mean(): the mean of the values present, NaN when there is none
SeriesMean(s) == Mean(DropNa(s))

\* the least common denominator of the first t values of a sequence
RECURSIVE CommonDenominator(_, _)
CommonDenominator(v, t) ==
    IF t = 0 THEN 1
    ELSE LET l == CommonDenominator(v, t - 1)
         IN  (l \div Gcd(l, v[t][2])) * v[t][2]

RECURSIVE IntSum(_, _)
IntSum(x, t) == IF t = 0 THEN 0 ELSE IntSum(x, t - 1) + x[t]

\* the square of Series.std(): the sample variance (ddof = 1) of the values
\* present, sum((v - mean)^2) / (n - 1), NaN when fewer than two are
\* present.  With v[t] = x[t] / l over the common denominator l it is
\* (n * sum(x^2) - sum(x)^2) / (n * (n - 1) * l^2).
SeriesVariance(s) ==
    LET v == DropNa(s)
        n == Len(v)
        l == CommonDenominator(v, n)
        x == [t \in 1..n |-> v[t][1] * (l \div v[t][2])]
        squares == [t \in 1..n |-> x[t] * x[t]]
    IN  IF n < 2 THEN NaN
        ELSE RDiv(Norm(n * IntSum(squares, n) - IntSum(x, n) * IntSum(x, n),
                       n * (n - 1)),
                  Norm(l * l, 1))

\* A float that is not rational in general is kept as coef * sqrt(radicand),
\* with radicand >= 0: zero is 0 * sqrt(1) and NaN is NaN * sqrt(NaN).
Surd(coef, radicand) ==
    IF IsNaN(coef) \/ IsNaN(radicand) THEN [coef |-> NaN, radicand |-> NaN]
    ELSE IF coef = Zero \/ radicand = Zero
    THEN [coef |-> Zero, radicand |-> One]
    ELSE [coef |-> coef, radicand |-> radicand]

SurdNaN == Surd(NaN, NaN)

\* s > 0
SurdPositive(s) == RLt(Zero, s.coef) /\ RLt(Zero, s.radicand)

\* x / s for a rational x: x / (c * sqrt(r)) = (x / (c * r)) * sqrt(r);
\* a NaN operand gives NaN, and so does 0 / 0
SurdDiv(x, s) ==
    IF IsNaN(x) \/ IsNaN(s.coef) THEN SurdNaN
    ELSE IF s.coef = Zero
    THEN (IF x = Zero THEN SurdNaN
          ELSE [coef |-> IF RLt(x, Zero) THEN NegInf ELSE PosInf,
                radicand |-> One])
    ELSE Surd(RDiv(x, RMul(s.coef, s.radicand)), s.radicand)

\* line 85: ann_vol = std * sqrt(periods_per_year)
AnnualizedVol(net) ==
    Surd(One, RMul(SeriesVariance(net), R(periods_per_year)))

\* a Sharpe ratio that is 0.0 when the volatility is not positive
SharpeOrZero(net, ann_vol) ==
    IF SurdPositive(ann_vol)
    THEN SurdDiv(RMul(SeriesMean(net), R(periods_per_year)), ann_vol)
    ELSE Surd(Zero, One)

\* lines 92-95: mean * periods_per_year / (ann_vol if ann_vol > 0 else nan)
Sharpe(net, ann_vol) ==
    SurdDiv(RMul(SeriesMean(net), R(periods_per_year)),
            IF SurdPositive(ann_vol) THEN ann_vol ELSE SurdNaN)

\* lines 86-90: (1 + total_return_pct) ** (periods_per_year / max(n, 1)) - 1,
\* kept as the base and the exponent of the power
ApproxAnnualReturn(total_return_pct, n) ==
    IF n > 0
    THEN [base |-> RAdd(One, total_return_pct),
          exponent |-> Norm(periods_per_year, IF n > 1 THEN n ELSE 1),
          minus |-> One]
    ELSE [base |-> One, exponent |-> One, minus |-> One]

\* lines 74-95 and 106-118
Metrics(d, p) ==
    LET final_equity == d.col["equity_curve"][d.n]
        risk == RiskMetrics(d.col["net_strategy_returns"])
        total_return_pct == RSub(RDiv(final_equity, p.capital), One)
        ann_vol == AnnualizedVol(d.col["net_strategy_returns"])
    IN  [final_equity |-> final_equity,
         total_return |-> RSub(final_equity, p.capital),
         total_return_pct |-> total_return_pct,
         max_drawdown |-> MaxDrawdown(d.col["equity_curve"]),
         annualized_vol |-> ann_vol,
         approx_annual_return |-> ApproxAnnualReturn(total_return_pct, d.n),
         sharpe |-> Sharpe(d.col["net_strategy_returns"], ann_vol),
         n_trades |-> SeriesSum(d.col["trade_event"]),
         total_commission_paid |-> SeriesSum(d.col["trade_cost"]),
         VaR_95 |-> risk.var_95,
         CVaR_95 |-> risk.cvar_95]

\* the outcome of a call: how it ended, the callee's frame as it was left,
\* the value returned, and the caller's frame afterwards
Outcome(how, e, copy, local, value) ==
    [pc |-> how, exc |-> e, work |-> local, ret |-> value,
     caller |-> IF copy.shared THEN local ELSE copy.frame]

\* run_backtest(df, capital, commission_per_trade, commission_pct)
run_backtest(d, p, fill) ==
    LET copy == DfCopy(d)
        local == copy.frame
    IN  IF ~HasRequiredColumns(local)
        THEN Outcome("raised", "KeyError", copy, local, NoReturn)
        ELSE IF "Close" \notin Columns(local)          \* df["Close"], line 37
        THEN Outcome("raised", "KeyError", copy, local, NoReturn)
        ELSE LET f1 == SetCol(local, "returns", Returns(local, fill))
             IN  IF "signal" \notin Columns(f1)        \* df["signal"], line 40
                 THEN Outcome("raised", "KeyError", copy, f1, NoReturn)
                 ELSE LET b == BacktestColumns(f1, p)
                      IN  IF b.frame.n = 0             \* iloc[-1], line 74
                          THEN Outcome("raised", "IndexError", copy,
                                       b.frame, NoReturn)
                          ELSE Outcome("returned", "none", copy, b.frame,
                                  [kind |-> "backtest",
                                   df |-> b.frame,
                                   executed_pos |-> b.executed_pos,
                                   executed_change |-> b.executed_change,
                                   metrics |-> Metrics(b.frame, p)])

----------------------------------------------------------------------------
(* The inputs of a backtest.                                               *)

\* close prices: positive, or missing
PriceValues == {R(1), R(2), NaN}

\* desired positions: flat, long, short, or missing
SignalValues == {R(0), R(1), R(-1), NaN}

FillMethods == {"pad", "none"}

\* (commission_per_trade, commission_pct): no costs, or 5 per trade and 10%
BacktestParams ==
    { [capital |-> R(100), commission_per_trade |-> R(0),
       commission_pct |-> R(0)],
      [capital |-> R(100), commission_per_trade |-> R(5),
       commission_pct |-> <<1, 10>>] }

\* a frame of n rows holding the columns cs
InputFrame(n, cs, close, sig) ==
    Frame(n, [c \in cs |-> IF c = "Close" THEN close ELSE sig])

InitBT ==
    /\ \E n \in 0..MaxLen, cs \in SUBSET {"Close", "signal"} :
         \E close \in IF "Close" \in cs THEN [1..n -> PriceValues]
                      ELSE {<<>>},
            sig \in IF "signal" \in cs THEN [1..n -> SignalValues]
                    ELSE {<<>>} :
              df = InputFrame(n, cs, close, sig)
    /\ params \in BacktestParams
    /\ fill_method \in FillMethods
    /\ pc = "ready"
    /\ op = "none"
    /\ exc = "none"
    /\ work = Frame(0, <<>>)
    /\ ret = NoReturn

RunBacktest ==
    /\ pc = "ready"
    /\ \E r \in {run_backtest(df, params, fill_method)} :
           /\ pc' = r.pc
           /\ exc' = r.exc
           /\ work' = r.work
           /\ ret' = r.ret
           /\ df' = r.caller
    /\ op' = "run_backtest"
    /\ UNCHANGED <<params, fill_method>>

NextBT == RunBacktest

SpecBT == InitBT /\ [][NextBT]_vars

----------------------------------------------------------------------------
(* Indicators: pandas rolling and exponentially weighted means.            *)

\* the number of present values among s[lo..t]
RECURSIVE CountObs(_, _, _)
CountObs(s, lo, t) ==
    IF t < lo THEN 0
    ELSE CountObs(s, lo, t - 1) + (IF NotNa(s[t]) THEN 1 ELSE 0)

\* the sum of the present values among s[lo..t]
RECURSIVE SumObs(_, _, _)
SumObs(s, lo, t) ==
    IF t < lo THEN Zero
    ELSE IF IsNaN(s[t]) THEN SumObs(s, lo, t - 1)
    ELSE RAdd(SumObs(s, lo, t - 1), s[t])

\* Series.rolling(window).mean(): min_periods defaults to the window, so a
\* row has a value only when its window holds `window` present values
RollingMean(s, window) ==
    [t \in 1..Len(s) |->
        LET lo == IF t - window + 1 < 1 THEN 1 ELSE t - window + 1
        IN  IF CountObs(s, lo, t) >= window
            THEN RDiv(SumObs(s, lo, t), R(window))
            ELSE NaN]

\* Series.ewm(alpha, adjust=False).mean(), ignore_na=False, min_periods=0:
\* the running weighted average w and the weight old_wt of the history.  A
\* missing value leaves the average and ages the history; the first present
\* value seeds the average.
RECURSIVE EwmState(_, _, _)
EwmState(s, alpha, t) ==
    IF t = 1 THEN [w |-> s[1], old_wt |-> One]
    ELSE LET prev == EwmState(s, alpha, t - 1)
             cur == s[t]
             aged == RMul(prev.old_wt, RSub(One, alpha))
         IN  IF NotNa(prev.w)
             THEN IF NotNa(cur)
                  THEN [w |-> IF prev.w # cur
                              THEN RDiv(RAdd(RMul(aged, prev.w),
                                             RMul(alpha, cur)),
                                        RAdd(aged, alpha))
                              ELSE prev.w,
                        old_wt |-> One]
                  ELSE [w |-> prev.w, old_wt |-> aged]
             ELSE IF NotNa(cur)
                  THEN [w |-> cur, old_wt |-> prev.old_wt]
                  ELSE prev

EwmMean(s, alpha) == [t \in 1..Len(s) |-> EwmState(s, alpha, t).w]

\* ewm(span=...): alpha = 2 / (span + 1)
SpanAlpha(span) == Norm(2, span + 1)

\* Series.clip(lower=0.0) and Series.clip(upper=0.0); NaN stays NaN
ClipLower(s) == [t \in 1..Len(s) |->
                    IF IsNaN(s[t]) THEN NaN ELSE RMax(s[t], Zero)]
ClipUpper(s) == [t \in 1..Len(s) |->
                    IF IsNaN(s[t]) THEN NaN ELSE RMin(s[t], Zero)]

\* the column names f"SMA_{w}", f"EMA_{w}", f"mom_{w}"
SmaCol(w) == <<"SMA_1", "SMA_2", "SMA_3", "SMA_4", "SMA_5", "SMA_6">>[w]
EmaCol(w) == <<"EMA_1", "EMA_2", "EMA_3", "EMA_4", "EMA_5", "EMA_6">>[w]
MomCol(w) == <<"mom_1", "mom_2", "mom_3", "mom_4", "mom_5", "mom_6">>[w]

\* indicators/sma.py: SMA(df, period) writes the column into the frame given
SMA(d, period) ==
    SetCol(d, SmaCol(period), RollingMean(d.col["Close"], period))

----------------------------------------------------------------------------
(* Signal generators.                                                      *)

\* df["signal"] = 0; df.loc[mask, "signal"] = 1; fillna(0).astype(int)
SignalWhere(n, mask) == [t \in 1..n |-> IF mask[t] THEN One ELSE Zero]

\* mutant: the crossover is not strict
CrossoverMaskNonStrict(short_s, long_s) ==
    [t \in 1..Len(short_s) |->
        NotNa(short_s[t]) /\ NotNa(long_s[t]) /\ RLe(long_s[t], short_s[t])]

\* sma_crossover.py line 23, ema_crossover.py lines 21-26
CrossoverMask(short_s, long_s) ==
    [t \in 1..Len(short_s) |->
        NotNa(short_s[t]) /\ NotNa(long_s[t]) /\ RGt(short_s[t], long_s[t])]

Signals(frame) == [kind |-> "signals", df |-> frame]

\* SMACrossoverStrategy(short_window, long_window).generate_signals(df)
sma_generate_signals(d, p) ==
    LET copy == DfCopy(d)
        local == copy.frame
    IN  IF "Close" \notin Columns(local)              \* SMA: df["Close"]
        THEN Outcome("raised", "KeyError", copy, local, NoReturn)
        ELSE LET f2 == SMA(SMA(local, p.short), p.long)
                 sig == SignalWhere(f2.n,
                            CrossoverMask(f2.col[SmaCol(p.short)],
                                          f2.col[SmaCol(p.long)]))
                 f3 == SetCol(f2, "signal", sig)
                 f4 == SetCol(f3, "positions", FillNa(Diff(sig), Zero))
             IN  Outcome("returned", "none", copy, f4, Signals(f4))

\* EMACrossoverStrategy(short_window, long_window).generate_signals(df)
ema_generate_signals(d, p) ==
    LET copy == DfCopy(d)
        local == copy.frame
    IN  IF "Close" \notin Columns(local)
        THEN Outcome("raised", "KeyError", copy, local, NoReturn)
        ELSE LET close == local.col["Close"]
                 f1 == SetCol(local, EmaCol(p.short),
                              EwmMean(close, SpanAlpha(p.short)))
                 f2 == SetCol(f1, EmaCol(p.long),
                              EwmMean(close, SpanAlpha(p.long)))
                 sig == SignalWhere(f2.n,
                            CrossoverMask(f2.col[EmaCol(p.short)],
                                          f2.col[EmaCol(p.long)]))
                 f3 == SetCol(f2, "signal", sig)
             IN  Outcome("returned", "none", copy, f3, Signals(f3))

\* momentum_strategy.py line 19
\* a comparison that also lets a momentum equal to the threshold through
MomentumMaskNonStrict(mom, threshold) ==
    [t \in 1..Len(mom) |->
        NotNa(mom[t]) /\ ~RLt(mom[t], threshold)]

MomentumMask(mom, threshold) ==
    [t \in 1..Len(mom) |-> NotNa(mom[t]) /\ RGt(mom[t], threshold)]

\* MomentumStrategy(lookback, threshold).generate_signals(df)
momentum_generate_signals(d, p, fill) ==
    LET copy == DfCopy(d)
        local == copy.frame
    IN  IF "Close" \notin Columns(local)
        THEN Outcome("raised", "KeyError", copy, local, NoReturn)
        ELSE LET mom == PctChange(local.col["Close"], p.lookback, fill)
                 f1 == SetCol(local, MomCol(p.lookback), mom)
                 f2 == SetCol(f1, "signal",
                          SignalWhere(f1.n, MomentumMask(mom, p.threshold)))
             IN  Outcome("returned", "none", copy, f2, Signals(f2))

\* rsi_strategy.py lines 21-31: RSI from Wilder-smoothed gains and losses;
\* rows with a zero or missing average loss, or a missing average gain, get 50
Rsi(close, period) ==
    LET delta == Diff(close)
        gain == ClipLower(delta)
        loss == [t \in 1..Len(delta) |-> RNeg(ClipUpper(delta)[t])]
        alpha == Norm(1, period)
        avg_gain == EwmMean(gain, alpha)
        avg_loss == EwmMean(loss, alpha)
        rs == [t \in 1..Len(close) |->
                 IF avg_loss[t] = Zero THEN NaN
                 ELSE RDiv(avg_gain[t], avg_loss[t])]
        raw == [t \in 1..Len(close) |->
                  RSub(R(100), RDiv(R(100), RAdd(One, rs[t])))]
    IN  FillNa(raw, R(50))

\* a comparison that leaves out an RSI equal to the oversold level
RsiMaskStrict(rsi, oversold) ==
    [t \in 1..Len(rsi) |-> RLt(rsi[t], oversold)]

\* rsi_strategy.py line 34
RsiMask(rsi, oversold) == [t \in 1..Len(rsi) |-> RLe(rsi[t], oversold)]

\* RSIStrategy(period, oversold, overbought).generate_signals(df)
rsi_generate_signals(d, p) ==
    LET copy == DfCopy(d)
        local == copy.frame
    IN  IF "Close" \notin Columns(local)
        THEN Outcome("raised", "KeyError", copy, local, NoReturn)
        ELSE LET rsi == Rsi(local.col["Close"], p.period)
                 f1 == SetCol(local, "rsi", rsi)
                 f2 == SetCol(f1, "signal",
                          SignalWhere(f1.n, RsiMask(rsi, p.oversold)))
             IN  Outcome("returned", "none", copy, f2, Signals(f2))

\* BuyAndHoldStrategy().generate_signals(df), for plain (not MultiIndex)
\* column names
buy_and_hold_generate_signals(d) ==
    LET copy == DfCopy(d)
        local == copy.frame
    IN  IF "Close" \notin Columns(local)     \* _extract_close_series
        THEN Outcome("raised", "KeyError", copy, local, NoReturn)
        ELSE LET close == local.col["Close"]
                 mask == [t \in 1..local.n |-> NotNa(close[t])]
                 f1 == SetCol(local, "signal", SignalWhere(local.n, mask))
             IN  Outcome("returned", "none", copy, f1, Signals(f1))

----------------------------------------------------------------------------
(* The inputs of the signal generators.                                    *)

SigPriceValues == {R(1), R(2), R(3), NaN}

Windows == 1..MaxWindow

\* momentum thresholds: the default 0, a negative and a positive one
Thresholds == {Zero, <<-1, 2>>, <<1, 2>>}

\* RSI oversold levels: the default 30, and the neutral level 50
OversoldLevels == {R(30), R(50)}

InitSig ==
    /\ \E n \in 0..MaxSigLen, cs \in SUBSET {"Close"} :
         \E close \in IF "Close" \in cs THEN [1..n -> SigPriceValues]
                      ELSE {<<>>} :
              df = InputFrame(n, cs, close, <<>>)
    /\ params = [none |-> TRUE]
    /\ fill_method \in FillMethods
    /\ pc = "ready"
    /\ op = "none"
    /\ exc = "none"
    /\ work = Frame(0, <<>>)
    /\ ret = NoReturn

\* the call ends with outcome r
Finish(name, p, r) ==
    /\ pc' = r.pc
    /\ exc' = r.exc
    /\ work' = r.work
    /\ ret' = r.ret
    /\ df' = r.caller
    /\ op' = name
    /\ params' = p
    /\ UNCHANGED fill_method

GenerateSMA ==
    /\ pc = "ready"
    /\ \E s \in Windows, l \in Windows :
         \E p \in {[short |-> s, long |-> l]} :
           \E r \in {sma_generate_signals(df, p)} : Finish("sma", p, r)

GenerateEMA ==
    /\ pc = "ready"
    /\ \E s \in Windows, l \in Windows :
         \E p \in {[short |-> s, long |-> l]} :
           \E r \in {ema_generate_signals(df, p)} : Finish("ema", p, r)

GenerateMomentum ==
    /\ pc = "ready"
    /\ \E n \in Windows, h \in Thresholds :
         \E p \in {[lookback |-> n, threshold |-> h]} :
           \E r \in {momentum_generate_signals(df, p, fill_method)} :
              Finish("momentum", p, r)

GenerateRSI ==
    /\ pc = "ready"
    /\ \E n \in Windows, o \in OversoldLevels :
         \E p \in {[period |-> n, oversold |-> o]} :
           \E r \in {rsi_generate_signals(df, p)} : Finish("rsi", p, r)

GenerateBuyAndHold ==
    /\ pc = "ready"
    /\ \E r \in {buy_and_hold_generate_signals(df)} :
         Finish("buy_and_hold", [none |-> TRUE], r)

NextSig ==
    \/ GenerateSMA
    \/ GenerateEMA
    \/ GenerateMomentum
    \/ GenerateRSI
    \/ GenerateBuyAndHold

SpecSig == InitSig /\ [][NextSig]_vars

----------------------------------------------------------------------------
(* The risk measures called directly, and run_backtest called with        *)
(* commission settings that may be NaN.  params.target tells which.        *)

MaxSample == 3

\* realized returns: -10%, -5%, 0, +10%
ReturnValues == {<<-1, 10>>, <<-1, 20>>, Zero, <<1, 10>>}

SampleKinds == {"list", "ndarray", "other"}

ConfidenceLevels == {<<1, 2>>, <<9, 10>>, <<19, 20>>}

\* commission 5 per trade and 10%, or a per-trade commission that is NaN
RiskBacktestParams ==
    { [target |-> "backtest", capital |-> R(100),
       commission_per_trade |-> c, commission_pct |-> <<1, 10>>] :
         c \in {R(5), NaN} }

InitRisk ==
    /\ \/ /\ \E n \in 0..MaxSample, k \in SampleKinds,
               c \in ConfidenceLevels :
               \E vals \in [1..n -> ReturnValues] :
                  params = [target |-> "risk", returns |-> Sample(k, vals),
                            confidence_level |-> c]
          /\ df = Frame(0, <<>>)
          /\ fill_method = "none"
       \/ /\ \E n \in 0..MaxLen :
               \E close \in [1..n -> PriceValues],
                  sig \in [1..n -> SignalValues] :
                    df = InputFrame(n, {"Close", "signal"}, close, sig)
          /\ params \in RiskBacktestParams
          /\ fill_method \in FillMethods
    /\ pc = "ready"
    /\ op = "none"
    /\ exc = "none"
    /\ work = Frame(0, <<>>)
    /\ ret = NoReturn

\* a direct call of a pure function ends with outcome r
FinishRisk(name, r) ==
    /\ pc' = r.pc
    /\ exc' = r.exc
    /\ ret' = r.ret
    /\ op' = name
    /\ UNCHANGED <<df, params, fill_method, work>>

CallValueAtRisk ==
    /\ pc = "ready"
    /\ params.target = "risk"
    /\ \E r \in {value_at_risk(params.returns, params.confidence_level)} :
         FinishRisk("value_at_risk", r)

CallConditionalValueAtRisk ==
    /\ pc = "ready"
    /\ params.target = "risk"
    /\ \E r \in {conditional_value_at_risk(params.returns,
                                           params.confidence_level)} :
         FinishRisk("conditional_value_at_risk", r)

CallExpectedShortfall ==
    /\ pc = "ready"
    /\ params.target = "risk"
    /\ \E r \in {expected_shortfall(params.returns,
                                    params.confidence_level)} :
         FinishRisk("expected_shortfall", r)

RunBacktestRisk ==
    /\ params.target = "backtest"
    /\ RunBacktest

NextRisk ==
    \/ CallValueAtRisk
    \/ CallConditionalValueAtRisk
    \/ CallExpectedShortfall
    \/ RunBacktestRisk

SpecRisk == InitRisk /\ [][NextRisk]_vars

----------------------------------------------------------------------------
(* models/black_scholes.py.  The transcendental functions are not          *)
(* computed: lib holds the values np.log, np.exp, norm.cdf and norm.pdf    *)
(* return at the arguments the call evaluates them at, as functions from   *)
(* argument to value, and Init lets lib range over values that the real    *)
(* functions' order, sign and symmetry properties allow.  np.sqrt is exact *)
(* on the maturities used, which are perfect squares.                      *)

\* np.sqrt(x) for x in {1/4, 1, 4}
Sqrt(x) == CHOOSE y \in {<<1, 2>>, R(1), R(2)} : RMul(y, y) = x

\* T <= 0 or sigma <= 0
OnBoundary(T, sigma) == RLe(T, Zero) \/ RLe(sigma, Zero)

\* d1(S, K, T, r, sigma), lines 10-26
d1(S, K, T, r, sigma, lib) ==
    IF OnBoundary(T, sigma) THEN Zero
    ELSE RDiv(RAdd(lib.log[RDiv(S, K)],
                   RMul(RAdd(r, RMul(<<1, 2>>, RMul(sigma, sigma))), T)),
              RMul(sigma, Sqrt(T)))

\* d2(S, K, T, r, sigma), lines 29-46
d2(S, K, T, r, sigma, lib) ==
    IF OnBoundary(T, sigma) THEN Zero
    ELSE RSub(d1(S, K, T, r, sigma, lib), RMul(sigma, Sqrt(T)))

\* K * np.exp(-r * T)
Discounted(K, T, r, lib) == RMul(K, lib.exp[RNeg(RMul(r, T))])

\* a variant that tests sigma before T
call_price_sigma_first(S, K, T, r, sigma, lib) ==
    IF RLe(sigma, Zero)
    THEN RMax(RSub(S, Discounted(K, T, r, lib)), Zero)
    ELSE IF RLe(T, Zero) THEN RMax(RSub(S, K), Zero)
    ELSE RMax(RSub(RMul(S, lib.cdf[d1(S, K, T, r, sigma, lib)]),
                   RMul(Discounted(K, T, r, lib),
                        lib.cdf[d2(S, K, T, r, sigma, lib)])), Zero)

\* call_price(S, K, T, r, sigma), lines 49-72
call_price(S, K, T, r, sigma, lib) ==
    IF RLe(T, Zero) THEN RMax(RSub(S, K), Zero)
    ELSE IF RLe(sigma, Zero)
    THEN RMax(RSub(S, Discounted(K, T, r, lib)), Zero)
    ELSE RMax(RSub(RMul(S, lib.cdf[d1(S, K, T, r, sigma, lib)]),
                   RMul(Discounted(K, T, r, lib),
                        lib.cdf[d2(S, K, T, r, sigma, lib)])), Zero)

\* a variant that takes the normal cdf at d2 and d1 instead of -d2 and -d1
put_price_unreflected(S, K, T, r, sigma, lib) ==
    IF RLe(T, Zero) THEN RMax(RSub(K, S), Zero)
    ELSE IF RLe(sigma, Zero)
    THEN RMax(RSub(Discounted(K, T, r, lib), S), Zero)
    ELSE RMax(RSub(RMul(Discounted(K, T, r, lib),
                        lib.cdf[d2(S, K, T, r, sigma, lib)]),
                   RMul(S, lib.cdf[d1(S, K, T, r, sigma, lib)])), Zero)

\* put_price(S, K, T, r, sigma), lines 75-98
put_price(S, K, T, r, sigma, lib) ==
    IF RLe(T, Zero) THEN RMax(RSub(K, S), Zero)
    ELSE IF RLe(sigma, Zero)
    THEN RMax(RSub(Discounted(K, T, r, lib), S), Zero)
    ELSE RMax(RSub(RMul(Discounted(K, T, r, lib),
                        lib.cdf[RNeg(d2(S, K, T, r, sigma, lib))]),
                   RMul(S, lib.cdf[RNeg(d1(S, K, T, r, sigma, lib))])), Zero)

\* call_delta(S, K, T, r, sigma), lines 101-121
call_delta(S, K, T, r, sigma, lib) ==
    IF OnBoundary(T, sigma) THEN (IF RGt(S, K) THEN One ELSE Zero)
    ELSE lib.cdf[d1(S, K, T, r, sigma, lib)]

\* a variant that takes the cdf at -d1
put_delta_reflected(S, K, T, r, sigma, lib) ==
    IF OnBoundary(T, sigma) THEN (IF RGt(S, K) THEN Zero ELSE R(-1))
    ELSE lib.cdf[RNeg(d1(S, K, T, r, sigma, lib))]

\* put_delta(S, K, T, r, sigma), lines 124-144
put_delta(S, K, T, r, sigma, lib) ==
    IF OnBoundary(T, sigma) THEN (IF RGt(S, K) THEN Zero ELSE R(-1))
    ELSE RSub(lib.cdf[d1(S, K, T, r, sigma, lib)], One)

\* gamma(S, K, T, r, sigma), lines 147-167
gamma(S, K, T, r, sigma, lib) ==
    IF OnBoundary(T, sigma) THEN Zero
    ELSE RDiv(lib.pdf[d1(S, K, T, r, sigma, lib)],
              RMul(S, RMul(sigma, Sqrt(T))))

----------------------------------------------------------------------------
(* The inputs of the option pricer and the library values it may see.      *)

Spots == {R(1), R(2)}
Strikes == {R(1), R(2)}

\* time to expiry in years: expired, at expiry, 1 and 4 years
Maturities == {R(-1), Zero, R(1), R(4)}

Rates == {<<-1, 10>>, Zero, <<1, 10>>}

Vols == {<<-1, 2>>, Zero, <<1, 2>>, R(1)}

\* np.log(x) is 0 at 1, negative below and positive above
LogValues(x) ==
    IF x = One THEN {Zero}
    ELSE IF RLt(x, One) THEN {<<-7, 10>>, <<-1, 2>>}
    ELSE {<<7, 10>>, <<1, 2>>}

\* np.exp(x) is 1 at 0, in (0, 1) below and above 1 above
ExpValues(x) ==
    IF x = Zero THEN {One}
    ELSE IF RLt(x, Zero) THEN {<<9, 10>>, <<2, 3>>}
    ELSE {<<11, 10>>, <<3, 2>>}

\* norm.cdf takes values in [0, 1]
CdfValues == {Zero, <<1, 4>>, <<1, 2>>, <<3, 4>>, One}

\* norm.pdf takes values in [0, 0.4)
PdfValues == {Zero, <<1, 10>>, <<2, 5>>}

\* norm.cdf on args (a set closed under negation): non-decreasing, and
\* cdf(-x) = 1 - cdf(x), so that cdf(0) = 1/2
CdfFunctions(args) ==
    { f \in [args -> CdfValues] :
        /\ \A x \in args : f[RNeg(x)] = RSub(One, f[x])
        /\ \A x, y \in args : RLt(x, y) => RLe(f[x], f[y]) }

\* the library values for the inputs, once np.log and np.exp are fixed
LibsWith(S, K, T, r, sigma, lg, ex) ==
    LET part == [log |-> lg, exp |-> ex]
        a == d1(S, K, T, r, sigma, part)
        b == d2(S, K, T, r, sigma, part)
    IN  { [log |-> lg, exp |-> ex, cdf |-> c, pdf |-> (a :> p)] :
            c \in CdfFunctions({a, RNeg(a), b, RNeg(b)}), p \in PdfValues }

\* every lib the inputs may meet
Libs(S, K, T, r, sigma) ==
    UNION { LibsWith(S, K, T, r, sigma, RDiv(S, K) :> l,
                     RNeg(RMul(r, T)) :> e) :
              l \in LogValues(RDiv(S, K)),
              e \in ExpValues(RNeg(RMul(r, T))) }

InitOpt ==
    /\ \E S \in Spots, K \in Strikes, T \in Maturities, r \in Rates,
          sigma \in Vols :
          \E lib \in Libs(S, K, T, r, sigma) :
             params = [target |-> "option", S |-> S, K |-> K, T |-> T,
                       r |-> r, sigma |-> sigma, lib |-> lib]
    /\ df = Frame(0, <<>>)
    /\ fill_method = "none"
    /\ pc = "ready"
    /\ op = "none"
    /\ exc = "none"
    /\ work = Frame(0, <<>>)
    /\ ret = NoReturn

CallPrice ==
    /\ pc = "ready"
    /\ \E x \in {call_price(params.S, params.K, params.T, params.r,
                           params.sigma, params.lib)} :
         FinishRisk("call_price", Gives(x))

PutPrice ==
    /\ pc = "ready"
    /\ \E x \in {put_price(params.S, params.K, params.T, params.r,
                          params.sigma, params.lib)} :
         FinishRisk("put_price", Gives(x))

CallDelta ==
    /\ pc = "ready"
    /\ \E x \in {call_delta(params.S, params.K, params.T, params.r,
                           params.sigma, params.lib)} :
         FinishRisk("call_delta", Gives(x))

PutDelta ==
    /\ pc = "ready"
    /\ \E x \in {put_delta(params.S, params.K, params.T, params.r,
                          params.sigma, params.lib)} :
         FinishRisk("put_delta", Gives(x))

Gamma ==
    /\ pc = "ready"
    /\ \E x \in {gamma(params.S, params.K, params.T, params.r,
                      params.sigma, params.lib)} :
         FinishRisk("gamma", Gives(x))

NextOpt ==
    \/ CallPrice
    \/ PutPrice
    \/ CallDelta
    \/ PutDelta
    \/ Gamma

SpecOpt == InitOpt /\ [][NextOpt]_vars

----------------------------------------------------------------------------
(* web/pages/option_chain.py lines 70-92: calculate_implied_volatility.    *)
(* brentq searches [0.001, 5.0]; the volatilities it can visit are the     *)
(* points Vol(1) .. Vol(GridSize), and params.prices[i] is what the        *)
(* selected pricing function returns at Vol(i).  work holds the solver's   *)
(* iteration count and bracket, and the exception raised inside the try.   *)

GridSize == 4

\* maxiter, line 89
maxiter == 100

\* the i-th volatility of the grid: 0.001 at one end and 5.0 at the other
Vol(i) == IF i = 1 THEN <<1, 1000>> ELSE Norm(5 * (i - 1), GridSize - 1)

\* the option price observed in the market; NaN when none was quoted
MarketPrices == {Zero, <<1, 2>>, R(1), R(3), NaN}

PriceLevels == {Zero, R(1), R(2)}

\* call_price or put_price as a function of the grid volatility: not
\* negative and not decreasing in sigma (constant when T <= 0)
PriceProfiles ==
    { f \in [1..GridSize -> PriceLevels] :
        \A i \in 1..(GridSize - 1) : RLe(f[i], f[i + 1]) }

\* objective(sigma), lines 81-85, at sigma = Vol(i)
objective(i) == RSub(params.prices[i], params.option_price)

\* -1, 0 or 1 for a number
Sign(x) == IF RLt(x, Zero) THEN -1 ELSE IF RGt(x, Zero) THEN 1 ELSE 0

\* a handler for input errors only
CaughtValueErrorOnly(e) == e = "ValueError"

\* the bare except of line 91 catches every exception
Caught(e) == e \in {"ValueError", "RuntimeError", "ZeroDivisionError"}

InitIV ==
    /\ \E m \in MarketPrices, f \in PriceProfiles, z \in BOOLEAN :
         params = [target |-> "iv", option_price |-> m, prices |-> f,
                   pricing_fails |-> z]
    /\ df = Frame(0, <<>>)
    /\ fill_method = "none"
    /\ pc = "ready"
    /\ op = "none"
    /\ exc = "none"
    /\ work = [iter |-> 0, lo |-> 1, hi |-> GridSize, raised |-> "none"]
    /\ ret = NoReturn

\* the exception e is raised inside the try block of lines 87-92
Fail(e) ==
    /\ work' = [work EXCEPT !.raised = e]
    /\ IF Caught(e)
       THEN /\ pc' = "returned"
            /\ exc' = "none"
            /\ ret' = FloatValue(NaN)                  \* return np.nan
       ELSE /\ pc' = "raised"
            /\ exc' = e
            /\ ret' = NoReturn

\* brentq returns Vol(i), and so does calculate_implied_volatility
Converged(i) ==
    /\ pc' = "returned"
    /\ exc' = "none"
    /\ ret' = FloatValue(Vol(i))
    /\ UNCHANGED work

\* brentq goes on with the bracket lo..hi
Bracket(k, lo, hi) ==
    /\ pc' = "solving"
    /\ work' = [work EXCEPT !.iter = k, !.lo = lo, !.hi = hi]
    /\ UNCHANGED <<exc, ret>>

\* the call, and brentq up to its first iteration: the objective at both
\* ends; a raising pricing function; a NaN value (ValueError in scipy's
\* wrapper, or carried on where the wrapper is absent); a root at an end;
\* equal signs (ValueError)
SolveStart ==
    /\ pc = "ready"
    /\ op' = "calculate_implied_volatility"
    /\ UNCHANGED <<df, params, fill_method>>
    /\ LET fa == objective(1)
           fb == objective(GridSize)
       IN  IF params.pricing_fails THEN Fail("ZeroDivisionError")
           ELSE IF IsNaN(fa) \/ IsNaN(fb)
           THEN Fail("ValueError") \/ Bracket(0, 1, GridSize)
           ELSE IF fa = Zero THEN Converged(1)
           ELSE IF fb = Zero THEN Converged(GridSize)
           ELSE IF Sign(fa) = Sign(fb) THEN Fail("ValueError")
           ELSE Bracket(0, 1, GridSize)

\* one iteration of brentq: a new point m inside the bracket replaces the
\* end whose objective has the same sign (both ends when it is a root),
\* or the bracket shrinks by less than the grid resolves
SolveStep ==
    /\ pc = "solving"
    /\ work.iter < maxiter
    /\ UNCHANGED <<df, params, fill_method, op>>
    /\ \/ Bracket(work.iter + 1, work.lo, work.hi)
       \/ \E m \in (work.lo + 1)..(work.hi - 1) :
            LET fm == objective(m)
            IN  IF IsNaN(fm)
                THEN Fail("ValueError")
                     \/ Bracket(work.iter + 1, work.lo, work.hi)
                ELSE IF fm = Zero THEN Bracket(work.iter + 1, m, m)
                ELSE IF Sign(fm) = Sign(objective(work.lo))
                THEN Bracket(work.iter + 1, m, work.hi)
                ELSE Bracket(work.iter + 1, work.lo, m)

\* the convergence test at the top of an iteration: the bracket is within
\* tolerance, and one of its ends is returned
SolveConverge ==
    /\ pc = "solving"
    /\ work.iter < maxiter
    /\ work.hi - work.lo <= 1
    /\ UNCHANGED <<df, params, fill_method, op>>
    /\ \E i \in {work.lo, work.hi} : Converged(i)

\* maxiter iterations without convergence: brentq raises RuntimeError
SolveExhaust ==
    /\ pc = "solving"
    /\ work.iter = maxiter
    /\ UNCHANGED <<df, params, fill_method, op>>
    /\ Fail("RuntimeError")

NextIV ==
    \/ SolveStart
    \/ SolveStep
    \/ SolveConverge
    \/ SolveExhaust

\* the interpreter keeps running the call until it returns or raises
SpecIV == InitIV /\ [][NextIV]_vars /\ WF_vars(NextIV)

----------------------------------------------------------------------------
(* Option strategy backtests (backtesting/strategies.py).  A price frame    *)
(* carries its date index: index[t] is the day number of row t, strictly   *)
(* increasing.  A requested date is <<>> (None) or <<day>>.                *)

\* longest price series given to an option strategy backtest
MaxBars == 2

DatedFrame(n, cols, index) == [n |-> n, col |-> cols, index |-> index]

\* _extract_close_series: the frame has a column named Close
HasCloseSeries(d) == "Close" \in Columns(d)

\* entry_idx in idx
Contains(idx, day) == \E t \in 1..Len(idx) : idx[t] = day

\* the row of a date of the index
RowOf(idx, day) == CHOOSE t \in 1..Len(idx) : idx[t] = day

\* idx.get_indexer([day], method="nearest")[0] on an increasing index, always
\* taking the last row at or before the requested day
NearestPositionPad(idx, day) ==
    LET left == {t \in 1..Len(idx) : idx[t] <= day}
        right == {t \in 1..Len(idx) : idx[t] >= day}
    IN  IF left = {} THEN CHOOSE t \in right : \A u \in right : t <= u
        ELSE CHOOSE t \in left : \A u \in left : u <= t

\* idx.get_indexer([day], method="nearest")[0] on an increasing index: the
\* closer of the last row at or before the day and the first row at or after
\* it; a tie goes to the later row
NearestPosition(idx, day) ==
    LET left == {t \in 1..Len(idx) : idx[t] <= day}
        right == {t \in 1..Len(idx) : idx[t] >= day}
        l == CHOOSE t \in left : \A u \in left : u <= t
        r == CHOOSE t \in right : \A u \in right : t <= u
    IN  IF left = {} THEN r
        ELSE IF right = {} THEN l
        ELSE IF Abs(day - idx[l]) < Abs(idx[r] - day) THEN l ELSE r

\* the resolution of a requested date; fallback is the row used for None.
\* On an empty index idx[0], idx[-1] and idx[get_indexer(...)[0]] all fail.
ResolveDate(idx, requested, fallback) ==
    IF Len(idx) = 0 THEN [ok |-> FALSE, idx |-> <<>>]
    ELSE IF requested = <<>> THEN [ok |-> TRUE, idx |-> <<idx[fallback]>>]
    ELSE IF Contains(idx, requested[1]) THEN [ok |-> TRUE, idx |-> requested]
    ELSE [ok |-> TRUE,
          idx |-> <<idx[NearestPosition(idx, requested[1])]>>]

\* the running-maximum drawdown of an equity curve and its minimum
OptionMaxDrawdown(equity) ==
    LET running_max == CumMax(equity)
        drawdown == [t \in 1..Len(equity) |->
                        RDiv(RSub(equity[t], running_max[t]), running_max[t])]
    IN  SeriesMin(drawdown)

\* the outcome of an option backtest: as Outcome, with the callee's locals
OptionOutcome(how, e, copy, local, entry, expiry, cash, value) ==
    [pc |-> how, exc |-> e,
     work |-> [frame |-> local, entry_idx |-> entry, expiry_idx |-> expiry,
               cash |-> cash],
     ret |-> value,
     caller |-> IF copy.shared THEN local ELSE copy.frame]

\* equity before the settlement of the short call
CoveredCallEquity(close, shares, cash) ==
    [t \in 1..Len(close) |-> RAdd(RMul(R(shares), close[t]), cash)]

\* the settlement applied to the rows after expiry only
SettledAfterExpiry(idx, close, shares, cash, cash_after_expiry, expiry_idx) ==
    [t \in 1..Len(close) |->
        IF idx[t] > expiry_idx
        THEN RAdd(RMul(R(shares), close[t]), cash_after_expiry)
        ELSE RAdd(RMul(R(shares), close[t]), cash)]

\* equity.loc[equity.index >= expiry_idx] = shares * close + cash_after_expiry
SettledFromExpiry(idx, close, shares, cash, cash_after_expiry, expiry_idx) ==
    [t \in 1..Len(close) |->
        IF idx[t] >= expiry_idx
        THEN RAdd(RMul(R(shares), close[t]), cash_after_expiry)
        ELSE CoveredCallEquity(close, shares, cash)[t]]

\* CoveredCall(strike_price, premium).backtest(data, capital, shares,
\*                                             entry_date, expiry_date)
covered_call_backtest(d, p) ==
    LET copy == DfCopy(d)
        local == copy.frame
    IN  IF ~HasCloseSeries(local)
        THEN OptionOutcome("raised", "KeyError", copy, local, <<>>, <<>>,
                           NaN, NoReturn)
        ELSE
        LET close == local.col["Close"]
            idx == local.index
            entry == ResolveDate(idx, p.entry_date, 1)
            expiry == ResolveDate(idx, p.expiry_date, Len(idx))
        IN  IF ~entry.ok \/ ~expiry.ok
            THEN OptionOutcome("raised", "IndexError", copy, local,
                               entry.idx, expiry.idx, NaN, NoReturn)
            ELSE
            LET entry_idx == entry.idx[1]
                expiry_idx == expiry.idx[1]
                entry_price == close[RowOf(idx, entry_idx)]
                cash == RAdd(RSub(p.capital,
                                  RMul(R(p.shares), entry_price)),
                             RMul(R(p.shares), p.premium))
                payoff == RMul(RMax(Zero,
                                    RSub(close[RowOf(idx, expiry_idx)],
                                         p.strike_price)),
                               R(p.shares))
                cash_after_expiry == RSub(cash, payoff)
                equity == SettledFromExpiry(idx, close, p.shares, cash,
                                            cash_after_expiry, expiry_idx)
                out == SetCol(local, "equity_curve", equity)
                final_equity == equity[Len(equity)]
            IN  OptionOutcome("returned", "none", copy, out,
                    entry.idx, expiry.idx, cash,
                    [kind |-> "covered_call",
                     df |-> out,
                     metrics |->
                       [final_equity |-> final_equity,
                        total_return |-> RSub(final_equity, p.capital),
                        total_return_pct |->
                            RSub(RDiv(final_equity, p.capital), One),
                        max_drawdown |-> OptionMaxDrawdown(equity),
                        n_trades |-> 1,
                        total_premium_received |->
                            RMul(R(p.shares), p.premium),
                        option_payoff_at_expiry |-> payoff]])

\* the mark of the calls alone
OptionValueCallOnly(contracts, call_intrinsic, put_intrinsic) ==
    [t \in 1..Len(call_intrinsic) |->
        RMul(R(contracts), call_intrinsic[t])]

\* option_value = contracts * (call_intrinsic + put_intrinsic)
OptionValue(contracts, call_intrinsic, put_intrinsic) ==
    [t \in 1..Len(call_intrinsic) |->
        RMul(R(contracts), RAdd(call_intrinsic[t], put_intrinsic[t]))]

\* a straddle marked from the entry date only
StraddleEquityFromEntry(idx, cash, capital, option_value, entry_idx) ==
    [t \in 1..Len(option_value) |->
        IF idx[t] < entry_idx THEN capital
        ELSE RAdd(cash, option_value[t])]

\* equity = cash + option_value on every row
StraddleEquity(idx, cash, capital, option_value, entry_idx) ==
    [t \in 1..Len(option_value) |-> RAdd(cash, option_value[t])]

\* Straddle(strike_price, premium_call, premium_put).backtest(data, capital,
\*                                       entry_date, expiry_date, contracts)
straddle_backtest(d, p) ==
    LET copy == DfCopy(d)
        local == copy.frame
    IN  IF ~HasCloseSeries(local)
        THEN OptionOutcome("raised", "KeyError", copy, local, <<>>, <<>>,
                           NaN, NoReturn)
        ELSE
        LET close == local.col["Close"]
            idx == local.index
            entry == ResolveDate(idx, p.entry_date, 1)
            expiry == ResolveDate(idx, p.expiry_date, Len(idx))
        IN  IF ~entry.ok \/ ~expiry.ok
            THEN OptionOutcome("raised", "IndexError", copy, local,
                               entry.idx, expiry.idx, NaN, NoReturn)
            ELSE
            LET total_premium == RMul(R(p.contracts),
                                      RAdd(p.premium_call, p.premium_put))
                cash == RSub(p.capital, total_premium)
                call_intrinsic ==
                    ClipLower([t \in 1..Len(close) |->
                                  RSub(close[t], p.strike_price)])
                put_intrinsic ==
                    ClipLower([t \in 1..Len(close) |->
                                  RSub(p.strike_price, close[t])])
                option_value == OptionValue(p.contracts, call_intrinsic,
                                            put_intrinsic)
                equity == StraddleEquity(idx, cash, p.capital, option_value,
                                         entry.idx[1])
                out == SetCol(SetCol(SetCol(local, "equity_curve", equity),
                                     "call_intrinsic", call_intrinsic),
                              "put_intrinsic", put_intrinsic)
                final_equity == equity[Len(equity)]
            IN  OptionOutcome("returned", "none", copy, out,
                    entry.idx, expiry.idx, cash,
                    [kind |-> "straddle",
                     df |-> out,
                     metrics |->
                       [final_equity |-> final_equity,
                        total_return |-> RSub(final_equity, p.capital),
                        total_return_pct |->
                            RSub(RDiv(final_equity, p.capital), One),
                        max_drawdown |-> OptionMaxDrawdown(equity),
                        n_trades |-> 1,
                        total_premium_paid |-> total_premium]])

----------------------------------------------------------------------------
(* Inputs of the option strategy backtests.                                *)

\* the calendar: more days than rows, so that a requested day can be absent
LastDay == MaxBars + 2
Days == 1..LastDay

\* closes of the option backtests; every trading date has a close
OptionCloses == {R(1), R(2), R(3)}
\* one strike, with closes below, at and above it
OptionStrikes == {R(2)}
OptionPremiums == {Zero, One}
OptionCapitals == {R(2), R(10)}
Lots == {1, 2}
RequestedDates == {<<>>} \cup {<<day>> : day \in Days}

\* the strictly increasing date indexes of n rows
DateIndexes(n) ==
    {idx \in [1..n -> Days] : \A t \in 1..(n - 1) : idx[t] < idx[t + 1]}

CoveredCallParams ==
    [target : {"covered_call"}, strike_price : OptionStrikes,
     premium : OptionPremiums, capital : OptionCapitals, shares : Lots,
     entry_date : RequestedDates, expiry_date : RequestedDates]

StraddleParams ==
    [target : {"straddle"}, strike_price : OptionStrikes,
     premium_call : OptionPremiums, premium_put : {One},
     capital : OptionCapitals, contracts : Lots,
     entry_date : RequestedDates, expiry_date : RequestedDates]

InitStrat ==
    /\ \E n \in 0..MaxBars :
         \E close \in [1..n -> OptionCloses], idx \in DateIndexes(n),
            name \in IF n <= 1 THEN {"Close", "Open"} ELSE {"Close"} :
              df = DatedFrame(n, [c \in {name} |-> close], idx)
    /\ params \in CoveredCallParams \cup StraddleParams
    /\ fill_method = "none"
    /\ pc = "ready"
    /\ op = "none"
    /\ exc = "none"
    /\ work = Frame(0, <<>>)
    /\ ret = NoReturn

\* the end of a call with outcome r
FinishStrat(name, r) ==
    /\ pc' = r.pc
    /\ exc' = r.exc
    /\ work' = r.work
    /\ ret' = r.ret
    /\ df' = r.caller
    /\ op' = name
    /\ UNCHANGED <<params, fill_method>>

CoveredCallBacktest ==
    /\ pc = "ready"
    /\ params.target = "covered_call"
    /\ \E r \in {covered_call_backtest(df, params)} :
         FinishStrat("covered_call", r)

StraddleBacktest ==
    /\ pc = "ready"
    /\ params.target = "straddle"
    /\ \E r \in {straddle_backtest(df, params)} :
         FinishStrat("straddle", r)

NextStrat ==
    \/ CoveredCallBacktest
    \/ StraddleBacktest

SpecStrat == InitStrat /\ [][NextStrat]_vars

----------------------------------------------------------------------------
(* Several invocations in flight.  Each call i has its own input table     *)
(* df[i] and its own strategy object and arguments params[i]; the code     *)
(* keeps no module-level or class-level state.  A call makes its private   *)
(* copy of the table first and runs the rest of its body on that copy; the *)
(* steps of different calls interleave in any order.                       *)

\* longest price series given to the interleaved calls
MaxRows == 2

Calls == {1, 2}

\* closes are present on every row, signals are long throughout
PureCloses == {R(1), R(2)}
PureSignals == {One}

\* the tables given to run_backtest
PureBacktestFrames ==
    UNION {{InputFrame(n, {"Close", "signal"}, close, sig) :
               close \in [1..n -> PureCloses], sig \in [1..n -> PureSignals]} :
           n \in 0..MaxRows}

\* the tables given to the signal generators
PureSignalFrames ==
    UNION {{InputFrame(n, {"Close"}, close, <<>>) :
               close \in [1..n -> PureCloses]} : n \in 0..MaxRows}

\* the tables given to the option strategy backtests, one row a day
PureDatedFrames ==
    UNION {{DatedFrame(n, [c \in {"Close"} |-> close], [t \in 1..n |-> t]) :
               close \in [1..n -> PureCloses]} : n \in 0..MaxRows}

\* the callee and its strategy object and arguments
PureParams ==
    {[target |-> "run_backtest", capital |-> R(100),
      commission_per_trade |-> R(5), commission_pct |-> <<1, 10>>],
     [target |-> "sma", short |-> 1, long |-> 2],
     [target |-> "ema", short |-> 1, long |-> 2],
     [target |-> "momentum", lookback |-> 1, threshold |-> Zero],
     [target |-> "rsi", period |-> 2, oversold |-> R(30)],
     [target |-> "buy_and_hold"],
     [target |-> "covered_call", strike_price |-> One, premium |-> One,
      capital |-> R(10), shares |-> 2, entry_date |-> <<>>,
      expiry_date |-> <<1>>],
     [target |-> "straddle", strike_price |-> One, premium_call |-> One,
      premium_put |-> One, capital |-> R(10), contracts |-> 2,
      entry_date |-> <<>>, expiry_date |-> <<>>]}

\* the tables a callee is given
PureFrames(p) ==
    IF p.target = "run_backtest" THEN PureBacktestFrames
    ELSE IF p.target \in {"covered_call", "straddle"} THEN PureDatedFrames
    ELSE PureSignalFrames

\* the whole call of the callee named by p.target
Invoke(d, p, fill) ==
    CASE p.target = "run_backtest" -> run_backtest(d, p, fill)
      [] p.target = "sma" -> sma_generate_signals(d, p)
      [] p.target = "ema" -> ema_generate_signals(d, p)
      [] p.target = "momentum" -> momentum_generate_signals(d, p, fill)
      [] p.target = "rsi" -> rsi_generate_signals(d, p)
      [] p.target = "buy_and_hold" -> buy_and_hold_generate_signals(d)
      [] p.target = "covered_call" -> covered_call_backtest(d, p)
      [] p.target = "straddle" -> straddle_backtest(d, p)

InitPure ==
    /\ params \in [Calls -> PureParams]
    /\ df \in [Calls -> PureBacktestFrames \cup PureSignalFrames
                           \cup PureDatedFrames]
    /\ \A i \in Calls : df[i] \in PureFrames(params[i])
    /\ fill_method = "none"          \* no close is missing: it plays no part
    /\ pc = [i \in Calls |-> "ready"]
    /\ op = [i \in Calls |-> "none"]
    /\ exc = [i \in Calls |-> "none"]
    /\ work = [i \in Calls |-> DfCopy(Frame(0, <<>>))]
    /\ ret = [i \in Calls |-> NoReturn]

\* df = df.copy(), the first statement of every callee
CopyInput(i) ==
    /\ pc[i] = "ready"
    /\ pc' = [pc EXCEPT ![i] = "copied"]
    /\ op' = [op EXCEPT ![i] = params[i].target]
    /\ work' = [work EXCEPT ![i] = DfCopy(df[i])]
    /\ UNCHANGED <<df, params, fill_method, exc, ret>>

\* the rest of the body, run on the copy; its writes reach the caller's
\* table only if the copy is the caller's object
RunBody(i) ==
    /\ pc[i] = "copied"
    /\ \E r \in {Invoke(work[i].frame, params[i], fill_method)} :
         /\ pc' = [pc EXCEPT ![i] = r.pc]
         /\ exc' = [exc EXCEPT ![i] = r.exc]
         /\ ret' = [ret EXCEPT ![i] = r.ret]
         /\ work' = [work EXCEPT ![i].frame = r.work]
         /\ df' = [df EXCEPT ![i] = IF work[i].shared THEN r.caller ELSE @]
    /\ UNCHANGED <<params, fill_method, op>>

NextPure ==
    \E i \in Calls :
       \/ CopyInput(i)
       \/ RunBody(i)

SpecPure == InitPure /\ [][NextPure]_vars

----------------------------------------------------------------------------
(* run_backtest on inputs with a signal in {0, 1}, prices present or       *)
(* missing.                                                                *)

LagCloses == {R(1), R(2), NaN}
LagSignals == {Zero, One}

InitLag ==
    /\ \E n \in 0..MaxLen :
         \E close \in [1..n -> LagCloses], sig \in [1..n -> LagSignals] :
            df = InputFrame(n, {"Close", "signal"}, close, sig)
    /\ params = [capital |-> R(100), commission_per_trade |-> R(5),
                 commission_pct |-> <<1, 10>>]
    /\ fill_method \in FillMethods
    /\ pc = "ready"
    /\ op = "none"
    /\ exc = "none"
    /\ work = Frame(0, <<>>)
    /\ ret = NoReturn

NextLag == RunBacktest

SpecLag == InitLag /\ [][NextLag]_vars

----------------------------------------------------------------------------
(* run_backtest on series long enough for several trades, with a signal in *)
(* {0, 1} and every close present.                                         *)

\* longest price series of the runs with several trades
MaxTradeLen == 4

CostCloses == {R(1), R(2)}

CostParams ==
    [capital : {R(100), R(200)}, commission_per_trade : {R(0), R(5)},
     commission_pct : {R(0), <<1, 10>>}]

InitCost ==
    /\ \E n \in 0..MaxTradeLen :
         \E close \in [1..n -> CostCloses], sig \in [1..n -> LagSignals] :
            df = InputFrame(n, {"Close", "signal"}, close, sig)
    /\ params \in CostParams
    /\ fill_method = "none"          \* no close is missing: it plays no part
    /\ pc = "ready"
    /\ op = "none"
    /\ exc = "none"
    /\ work = Frame(0, <<>>)
    /\ ret = NoReturn

NextCost == RunBacktest

SpecCost == InitCost /\ [][NextCost]_vars

----------------------------------------------------------------------------
(* Claims about run_backtest, checked under SpecBT.                        *)

Returned == pc = "returned" /\ op = "run_backtest"

\* a missing signal counts as 0
Desired(x) == IF IsNaN(x) THEN Zero ELSE x

\* C1: for every row t >= 1 the executed exposure is the signal of the
\* previous row (a missing signal counting as 0), the exposure of row 0 is 0,
\* the return of row 0 is 0, a row whose close and previous close are both
\* present has return (close_t - close_{t-1}) / close_{t-1}, and the gross
\* strategy return is return_t * executed_exposure_t.
C1_ExecutionLag ==
    Returned =>
        LET sig == df.col["signal"]
            close == df.col["Close"]
            out == ret.df.col
        IN  /\ out["returns"][1] = Zero
            /\ ret.executed_pos[1] = Zero
            /\ \A t \in 2..df.n :
                 /\ ret.executed_pos[t] = Desired(sig[t - 1])
                 /\ (NotNa(close[t]) /\ NotNa(close[t - 1])) =>
                        out["returns"][t] =
                            RDiv(RSub(close[t], close[t - 1]), close[t - 1])
            /\ \A t \in 1..df.n :
                 out["strategy_returns"][t] =
                     RMul(out["returns"][t], ret.executed_pos[t])

\* C1 witness: a long signal on row 0 (row 1 missing) earns the price move of
\* row 1 and nothing on row 2.
C1_Witness ==
    /\ Returned
    /\ df.n = 3
    /\ df.col["signal"][1] = One
    /\ IsNaN(df.col["signal"][2])
    /\ ret.df.col["strategy_returns"][2] = One
    /\ ret.df.col["returns"][3] # Zero
    /\ ret.df.col["strategy_returns"][3] = Zero

\* C2: trade_flag_t = 1 exactly when t >= 2 and signal_{t-1} differs from
\* signal_{t-2} (executed_change_t = signal_{t-1} - signal_{t-2}); rows 0 and
\* 1 carry no executed change; so a change of the desired position on day t
\* is flagged on day t+1 and on no other day.
C2_TradeFlag ==
    Returned =>
        LET sig == df.col["signal"]
            out == ret.df.col
        IN  \A t \in 1..df.n :
              /\ ret.executed_change[t] =
                     IF t >= 3
                     THEN RSub(Desired(sig[t - 1]), Desired(sig[t - 2]))
                     ELSE Zero
              /\ out["trade_event"][t] \in {Zero, One}
              /\ out["trade_event"][t] = One <=>
                     (t >= 3 /\ Desired(sig[t - 1]) # Desired(sig[t - 2]))

\* C2 witness: the desired position changes on row 1 only, and row 2 alone
\* is flagged.
C2_Witness ==
    /\ Returned
    /\ df.n = 3
    /\ df.col["signal"] = <<Zero, One, One>>
    /\ ret.df.col["trade_event"] = <<Zero, Zero, One>>

\* C3: trade_cost_t = trade_flag_t * commission_per_trade
\*                    + commission_pct * capital * |executed_change_t|,
\* net_return_t = strategy_return_t - trade_cost_t / capital, and a row
\* without an executed trade has trade_cost_t = 0 and
\* net_return_t = strategy_return_t.
C3_CostModel ==
    Returned =>
        LET out == ret.df.col
        IN  \A t \in 1..df.n :
              /\ out["trade_cost"][t] =
                     RAdd(RMul(out["trade_event"][t],
                               params.commission_per_trade),
                          RMul(params.commission_pct,
                               RMul(params.capital,
                                    RAbs(ret.executed_change[t]))))
              /\ out["net_strategy_returns"][t] =
                     RSub(out["strategy_returns"][t],
                          RDiv(out["trade_cost"][t], params.capital))
              /\ out["trade_event"][t] = Zero =>
                     /\ out["trade_cost"][t] = Zero
                     /\ out["net_strategy_returns"][t] =
                            out["strategy_returns"][t]

\* C3 witness: a flip from short to long (|executed_change| = 2) with
\* capital 100, 5 per trade and 10% costs 5 + 0.1 * 100 * 2 = 25.
C3_Witness ==
    /\ Returned
    /\ df.n = 3
    /\ params.commission_per_trade = R(5)
    /\ ret.executed_change[3] = R(2)
    /\ ret.df.col["trade_cost"][3] = R(25)
    /\ ret.df.col["net_strategy_returns"][3] =
           RSub(ret.df.col["strategy_returns"][3], <<1, 4>>)

\* the product of (1 + net_return_i) over rows 1..t
RECURSIVE Compounded(_, _)
Compounded(net, t) ==
    IF t = 0 THEN One ELSE RMul(Compounded(net, t - 1), RAdd(One, net[t]))

\* C4: for every non-empty input every row has
\* equity_t = capital * prod_{i<=t}(1 + net_return_i), equity_0 = capital,
\* total_return_pct = final_equity / capital - 1 is the compounded product of
\* (1 + net_return) over the whole series minus 1, and
\* total_return = final_equity - capital.
C4_EquityCompounds ==
    Returned =>
        LET out == ret.df.col
            net == out["net_strategy_returns"]
            m == ret.metrics
        IN  /\ df.n > 0
            /\ \A t \in 1..df.n :
                 out["equity_curve"][t] =
                     RMul(params.capital, Compounded(net, t))
            /\ out["equity_curve"][1] = params.capital
            /\ m.final_equity = out["equity_curve"][df.n]
            /\ m.total_return_pct = RSub(Compounded(net, df.n), One)
            /\ m.total_return = RSub(m.final_equity, params.capital)

\* C4 witness: two rows with a non-zero net return, compounding to an equity
\* that differs from what adding the returns would give.
C4_Witness ==
    /\ Returned
    /\ df.n = 3
    /\ ret.df.col["net_strategy_returns"][2] = One
    /\ ret.df.col["net_strategy_returns"][3] = <<-1, 2>>
    /\ ret.metrics.final_equity = R(100)
    /\ ret.metrics.total_return_pct = Zero

C6_AlwaysLongNoCost ==
    (/\ Returned
     /\ \A t \in 1..df.n : df.col["signal"][t] = One
     /\ params.commission_per_trade = Zero
     /\ params.commission_pct = Zero) =>
        LET out == ret.df.col
        IN  \A t \in 1..df.n :
              /\ out["net_strategy_returns"][t] = out["returns"][t]
              /\ out["equity_curve"][t] =
                     RMul(params.capital,
                          Compounded(out["net_strategy_returns"], t))

\* C6 witness: always long, no costs, prices 1, 2, 1: the equity follows the
\* price from row 1 on.
C6_Witness ==
    /\ Returned
    /\ df.n = 3
    /\ df.col["signal"] = <<One, One, One>>
    /\ df.col["Close"] = <<R(1), R(2), R(1)>>
    /\ params.commission_per_trade = Zero
    /\ ret.df.col["net_strategy_returns"] = <<Zero, One, <<-1, 2>> >>
    /\ ret.df.col["equity_curve"] = <<R(100), R(200), R(100)>>

\* the largest of equity_1 .. equity_t
RunningMax(equity, t) ==
    CHOOSE m \in {equity[i] : i \in 1..t} :
        \A i \in 1..t : RLe(equity[i], m)

\* C7: max_drawdown = min_t((equity_t - running_max_t) / running_max_t) with
\* running_max_t = max(equity_0..t); it is <= 0, and it is 0 if and only if
\* the equity curve is non-decreasing.
C7_MaxDrawdown ==
    Returned =>
        LET equity == ret.df.col["equity_curve"]
            dd == [t \in 1..df.n |->
                     RDiv(RSub(equity[t], RunningMax(equity, t)),
                          RunningMax(equity, t))]
            mdd == ret.metrics.max_drawdown
        IN  /\ \E t \in 1..df.n : mdd = dd[t]
            /\ \A t \in 1..df.n : RLe(mdd, dd[t])
            /\ RLe(mdd, Zero)
            /\ mdd = Zero <=>
                   \A t \in 2..df.n : RLe(equity[t - 1], equity[t])

\* C7 witness: the equity rises to 200 and falls back to 100, a drawdown of
\* one half.
C7_Witness ==
    /\ Returned
    /\ ret.df.col["equity_curve"] = <<R(100), R(200), R(100)>>
    /\ ret.metrics.max_drawdown = <<-1, 2>>

\* C8: called on a frame that lacks the Close or the signal column,
\* run_backtest raises KeyError before any per-day column is computed (its
\* local frame still equals the input), returns nothing, and leaves the
\* caller's frame unchanged.
C8_MissingColumnFailsFast ==
    [][(pc = "ready" /\ ~("Close" \in Columns(df) /\ "signal" \in Columns(df)))
         => /\ pc' = "raised"
            /\ exc' = "KeyError"
            /\ ret' = NoReturn
            /\ work' = df
            /\ df' = df]_vars

\* C8 witness: a frame with prices but no signal column was refused.
C8_Witness ==
    /\ pc = "raised"
    /\ exc = "KeyError"
    /\ op = "run_backtest"
    /\ Columns(df) = {"Close"}
    /\ df.n = 3
    /\ ret = NoReturn

MetricNames ==
    {"final_equity", "total_return", "total_return_pct", "max_drawdown",
     "annualized_vol", "approx_annual_return", "sharpe", "n_trades",
     "total_commission_paid", "VaR_95", "CVaR_95"}

\* C26: when the volatility of the net returns is 0 or undefined (a signal
\* that is 0 on every row, a single-row series) run_backtest does not
\* raise: it returns with sharpe = NaN, never an infinity, and with every
\* other metric present.  Stated for the inputs that have both columns and
\* at least one row.
C26_SharpeUndefined ==
    (op = "run_backtest" /\ HasRequiredColumns(df) /\ df.n >= 1) =>
        /\ pc = "returned"
        /\ LET m == ret.metrics
               vol == m.annualized_vol
           IN  /\ DOMAIN m = MetricNames
               /\ df.n = 1 => vol = SurdNaN
               /\ (df.n >= 2 /\ \A t \in 1..df.n : df.col["signal"][t] = Zero)
                     => vol = Surd(Zero, One)
               /\ (vol = Surd(Zero, One) \/ vol = SurdNaN)
                     => m.sharpe = SurdNaN
               /\ m.sharpe.coef \notin {PosInf, NegInf}

\* a flat position over moving prices: volatility 0, sharpe NaN
C26_Witness ==
    /\ Returned
    /\ df.n = 3
    /\ df.col["signal"] = <<Zero, Zero, Zero>>
    /\ df.col["Close"] = <<R(1), R(2), R(1)>>
    /\ ret.metrics.annualized_vol = Surd(Zero, One)
    /\ ret.metrics.sharpe = SurdNaN

\* a single row: volatility undefined, sharpe NaN
C26_SingleRowExample ==
    /\ Returned
    /\ df.n = 1
    /\ ret.metrics.annualized_vol = SurdNaN
    /\ ret.metrics.sharpe = SurdNaN

\* a position with a positive volatility and a finite Sharpe ratio
C26_FiniteExample ==
    /\ Returned
    /\ SurdPositive(ret.metrics.annualized_vol)
    /\ RLt(Zero, ret.metrics.sharpe.coef)
    /\ IsFinite(ret.metrics.sharpe.coef)

----------------------------------------------------------------------------
(* Claims about the signal generators, checked under SpecSig.              *)

Generated == pc = "returned" /\ ret.kind = "signals"

\* the rows (numbered from 1) on which the strategy's indicator has too
\* little history to be defined
WarmUp(o, p, t) ==
    CASE o = "sma" -> t < p.short \/ t < p.long
      [] o = "ema" -> t = 1
      [] o = "momentum" -> t <= p.lookback
      [] o = "rsi" -> t = 1
      [] OTHER -> FALSE

\* C9: for every strategy, every parameter choice and every price series,
\* the signal column has one value per input row, every value is 0 or 1, and
\* every warm-up row has signal 0.
C9_SignalsBinaryWarmUpFlat ==
    Generated =>
        LET sig == ret.df.col["signal"]
        IN  /\ ret.df.n = df.n
            /\ DOMAIN sig = 1..df.n
            /\ \A t \in 1..df.n :
                 /\ sig[t] \in {Zero, One}
                 /\ WarmUp(op, params, t) => sig[t] = Zero

\* C9, the part the code keeps: the same statement for every strategy but an
\* RSI strategy whose oversold level is 50 or more.
C9_BelowNeutral ==
    (Generated /\ ~(op = "rsi" /\ RLe(R(50), params.oversold))) =>
        LET sig == ret.df.col["signal"]
        IN  /\ ret.df.n = df.n
            /\ DOMAIN sig = 1..df.n
            /\ \A t \in 1..df.n :
                 /\ sig[t] \in {Zero, One}
                 /\ WarmUp(op, params, t) => sig[t] = Zero

\* the sum of close[lo..hi]
RECURSIVE WindowSum(_, _, _)
WindowSum(close, lo, hi) ==
    IF hi < lo THEN Zero ELSE RAdd(WindowSum(close, lo, hi - 1), close[hi])

\* the simple moving average of window w is defined at row t
SmaDefined(close, w, t) ==
    t >= w /\ \A i \in (t - w + 1)..t : NotNa(close[i])

SmaValue(close, w, t) == RDiv(WindowSum(close, t - w + 1, t), R(w))

\* EMA_1 = close_1, EMA_t = a * close_t + (1 - a) * EMA_{t-1}, a = 2/(span+1)
RECURSIVE EmaRecursion(_, _, _)
EmaRecursion(close, span, t) ==
    IF t = 1 THEN close[1]
    ELSE RAdd(RMul(RDiv(R(2), R(span + 1)), close[t]),
              RMul(RSub(One, RDiv(R(2), R(span + 1))),
                   EmaRecursion(close, span, t - 1)))

NoMissingClose == \A t \in 1..df.n : NotNa(df.col["Close"][t])

\* C10: the SMA crossover signal is 1 exactly on the rows where both simple
\* averages are defined (from row w-1 on, over present prices) and the short
\* one is strictly above the long one; the EMA crossover signal on a series
\* without missing prices is 1 exactly where the short recursive EMA is
\* strictly above the long one, the EMA columns being that recursion, and
\* the EMA signal of row 0 is 0.
C10_CrossoverRule ==
    /\ (Generated /\ op = "sma") =>
          LET close == df.col["Close"]
              sig == ret.df.col["signal"]
          IN  \A t \in 1..df.n :
                /\ (t < params.short) =>
                       IsNaN(ret.df.col[SmaCol(params.short)][t])
                /\ (t < params.long) =>
                       IsNaN(ret.df.col[SmaCol(params.long)][t])
                /\ sig[t] = IF /\ SmaDefined(close, params.short, t)
                               /\ SmaDefined(close, params.long, t)
                               /\ RGt(SmaValue(close, params.short, t),
                                      SmaValue(close, params.long, t))
                            THEN One ELSE Zero
    /\ (Generated /\ op = "ema" /\ df.n >= 1) =>
          ret.df.col["signal"][1] = Zero
    /\ (Generated /\ op = "ema" /\ NoMissingClose) =>
          LET close == df.col["Close"]
              sig == ret.df.col["signal"]
          IN  \A t \in 1..df.n :
                /\ ret.df.col[EmaCol(params.short)][t] =
                       EmaRecursion(close, params.short, t)
                /\ ret.df.col[EmaCol(params.long)][t] =
                       EmaRecursion(close, params.long, t)
                /\ sig[t] = IF RGt(EmaRecursion(close, params.short, t),
                                   EmaRecursion(close, params.long, t))
                            THEN One ELSE Zero

\* C10 witness: SMA(1) against SMA(2) over 1, 2, 2, 1: row 0 is warm-up,
\* row 1 crosses (2 > 1.5), row 2 ties (2 = 2) and row 3 is below.
C10_Witness ==
    /\ Generated
    /\ op = "sma"
    /\ params = [short |-> 1, long |-> 2]
    /\ df.col["Close"] = <<R(1), R(2), R(2), R(1)>>
    /\ ret.df.col["SMA_2"] = <<NaN, <<3, 2>>, R(2), <<3, 2>> >>
    /\ ret.df.col["signal"] = <<Zero, One, Zero, Zero>>

\* an EMA crossover state: spans 1 and 3 over 1, 2, 2, 1 give the long EMA
\* 1, 3/2, 7/4, 11/8 and the signal 0, 1, 1, 0.
C10_EmaExample ==
    /\ Generated
    /\ op = "ema"
    /\ params = [short |-> 1, long |-> 3]
    /\ df.col["Close"] = <<R(1), R(2), R(2), R(1)>>
    /\ ret.df.col["EMA_3"] = <<R(1), <<3, 2>>, <<7, 4>>, <<11, 8>> >>
    /\ ret.df.col["signal"] = <<Zero, One, One, Zero>>

\* C11: the momentum signal of row t (rows counted from 0) is 1 exactly
\* when t >= lookback and (close_t - close_{t-N}) / close_{t-N} is strictly
\* above the threshold, on a series without missing prices or when
\* pct_change does not fill; the first lookback rows have signal 0 for
\* every series and every threshold, negative thresholds included.
C11_MomentumRule ==
    (Generated /\ op = "momentum") =>
        LET close == df.col["Close"]
            sig == ret.df.col["signal"]
            N == params.lookback
        IN  /\ \A t \in 1..df.n : t <= N => sig[t] = Zero
            /\ (NoMissingClose \/ fill_method = "none") =>
                  \A t \in 1..df.n :
                    sig[t] = IF /\ t > N
                                /\ NotNa(close[t])
                                /\ NotNa(close[t - N])
                                /\ RGt(RDiv(RSub(close[t], close[t - N]),
                                            close[t - N]),
                                       params.threshold)
                             THEN One ELSE Zero

\* C11 witness: lookback 2 and threshold -1/2 over 2, 2, 2, 1: the two
\* warm-up rows are 0 although the threshold is negative, row 2 has
\* momentum 0 > -1/2 and row 3 has momentum -1/2, which is not above it.
C11_Witness ==
    /\ Generated
    /\ op = "momentum"
    /\ params = [lookback |-> 2, threshold |-> <<-1, 2>>]
    /\ df.col["Close"] = <<R(2), R(2), R(2), R(1)>>
    /\ ret.df.col["mom_2"] = <<NaN, NaN, Zero, <<-1, 2>> >>
    /\ ret.df.col["signal"] = <<Zero, Zero, One, Zero>>

\* the gain (up = TRUE) or loss (up = FALSE) of row t >= 2
Move(close, up, t) ==
    LET delta == RSub(close[t], close[t - 1])
    IN  IF up THEN RMax(delta, Zero) ELSE RMax(RNeg(delta), Zero)

\* Wilder's smoothing with alpha = 1/period, seeded by the first move:
\* avg_2 = move_2, avg_t = move_t / period + (1 - 1/period) * avg_{t-1}
RECURSIVE Wilder(_, _, _, _)
Wilder(close, up, period, t) ==
    IF t = 2 THEN Move(close, up, 2)
    ELSE RAdd(RDiv(Move(close, up, t), R(period)),
              RMul(RSub(One, RDiv(One, R(period))),
                   Wilder(close, up, period, t - 1)))

----------------------------------------------------------------------------
(* Claims about the risk measures, checked under SpecRisk.                 *)

RiskOps == {"value_at_risk", "conditional_value_at_risk",
            "expected_shortfall"}

\* a risk function has been called directly
RiskCalled == pc # "ready" /\ op \in RiskOps

\* the sample passes the two input checks
AcceptedSample ==
    /\ params.returns.kind \in {"list", "ndarray"}
    /\ Len(params.returns.vals) > 0

\* the k-th smallest element of vals (k = 1 is the minimum), by rank
OrderStat(vals, k) ==
    CHOOSE y \in {vals[i] : i \in 1..Len(vals)} :
        /\ Cardinality({i \in 1..Len(vals) : RLt(vals[i], y)}) < k
        /\ k <= Cardinality({i \in 1..Len(vals) : RLe(vals[i], y)})

\* the p-th quantile (0 < p < 1) of vals by linear interpolation between
\* the order statistics around the rank 1 + (n - 1) * p
Quantile(vals, p) ==
    LET n == Len(vals)
        h == RMul(R(n - 1), p)
        lo == h[1] \div h[2]
        below == OrderStat(vals, lo + 1)
        above == IF lo + 2 > n THEN below ELSE OrderStat(vals, lo + 2)
    IN  RAdd(below, RMul(RSub(h, R(lo)), RSub(above, below)))

\* vals rearranged by the permutation f of its positions
Permuted(vals, f) == [t \in 1..Len(vals) |-> vals[f[t]]]

\* C13: for every non-empty sample given as a list or an array and every
\* confidence c, value_at_risk returns minus the (1 - c) quantile of the
\* sample, interpolated linearly between order statistics, and every
\* rearrangement of the sample gives the same value.
C13_ValueAtRisk ==
    (pc # "ready" /\ op = "value_at_risk" /\ AcceptedSample) =>
        LET vals == params.returns.vals
            c == params.confidence_level
        IN  /\ pc = "returned"
            /\ ret = FloatValue(RNeg(Quantile(vals, RSub(One, c))))
            /\ \A f \in Permutations(1..Len(vals)) :
                 value_at_risk(Sample(params.returns.kind,
                                      Permuted(vals, f)), c).ret = ret

\* C13 witness: the list 0.1, -0.1, 0 at 95%: the 5th percentile lies a
\* tenth of the way from -0.1 to 0, so the value at risk is 0.09.
C13_Witness ==
    /\ pc = "returned"
    /\ op = "value_at_risk"
    /\ params.returns = Sample("list", << <<1, 10>>, <<-1, 10>>, Zero>>)
    /\ params.confidence_level = <<19, 20>>
    /\ ret = FloatValue(<<9, 100>>)

\* the positions of the sample values at or below the threshold x
TailPositions(vals, x) == {i \in 1..Len(vals) : RLe(vals[i], x)}

\* the sum of vals over the positions in S
RECURSIVE SumOver(_, _)
SumOver(vals, S) ==
    IF S = {} THEN Zero
    ELSE LET i == CHOOSE j \in S : TRUE
         IN  RAdd(vals[i], SumOver(vals, S \ {i}))

\* minus the mean of the values at or below -v, 0 when there is none
TailLoss(vals, v) ==
    LET S == TailPositions(vals, RNeg(v))
    IN  IF S = {} THEN Zero
        ELSE RNeg(RDiv(SumOver(vals, S), R(Cardinality(S))))

\* C14: for every non-empty sample given as a list or an array and every
\* confidence c, conditional_value_at_risk returns, with
\* v = value_at_risk(sample, c), minus the mean of the sample values that
\* are <= -v, and 0 when there is no such value.
C14_ConditionalValueAtRisk ==
    (pc # "ready" /\ op = "conditional_value_at_risk" /\ AcceptedSample) =>
        LET vals == params.returns.vals
            v == RNeg(Quantile(vals, RSub(One, params.confidence_level)))
        IN  /\ pc = "returned"
            /\ ret = FloatValue(TailLoss(vals, v))

\* the statement of C14 for samples given as arrays, and for
\* expected_shortfall as well
C14_ArraySamples ==
    (/\ pc # "ready"
     /\ op \in {"conditional_value_at_risk", "expected_shortfall"}
     /\ AcceptedSample
     /\ params.returns.kind = "ndarray") =>
        LET vals == params.returns.vals
            v == RNeg(Quantile(vals, RSub(One, params.confidence_level)))
        IN  /\ pc = "returned"
            /\ ret = FloatValue(TailLoss(vals, v))

\* a list sample on which conditional_value_at_risk ends with a TypeError
C14_ListExample ==
    /\ pc = "raised"
    /\ exc = "TypeError"
    /\ op = "conditional_value_at_risk"
    /\ params.returns = Sample("list", << <<-1, 20>>, <<1, 10>>, Zero>>)
    /\ params.confidence_level = <<19, 20>>

\* C15: for every non-empty sample of finite returns and every confidence
\* c, conditional_value_at_risk(sample, c) >= value_at_risk(sample, c).
C15_CVaRAtLeastVaR ==
    (pc # "ready" /\ op = "conditional_value_at_risk" /\ AcceptedSample) =>
        /\ pc = "returned"
        /\ RLe(value_at_risk(params.returns,
                             params.confidence_level).ret.value,
               ret.value)

\* the statement of C15 for samples given as arrays
C15_ArraySamples ==
    (/\ pc # "ready"
     /\ op = "conditional_value_at_risk"
     /\ AcceptedSample
     /\ params.returns.kind = "ndarray") =>
        /\ pc = "returned"
        /\ RLe(RNeg(Quantile(params.returns.vals,
                             RSub(One, params.confidence_level))),
               ret.value)

\* an array on which the conditional value at risk is strictly larger
C15_StrictExample ==
    /\ pc = "returned"
    /\ op = "conditional_value_at_risk"
    /\ params.returns = Sample("ndarray", <<Zero, <<-1, 10>>, <<-1, 20>> >>)
    /\ params.confidence_level = <<1, 2>>
    /\ ret = FloatValue(<<3, 40>>)

\* run_backtest got as far as calling the risk functions
RiskInvoked ==
    /\ pc # "ready"
    /\ op = "run_backtest"
    /\ work.n > 0
    /\ "net_strategy_returns" \in Columns(work)

\* the sample run_backtest hands to the risk functions
BacktestSample == DropNa(work.col["net_strategy_returns"])

\* a direct call with an empty sample or one that is no list or array
\* ends with a ValueError and no value
DirectCallFails ==
    (RiskCalled /\ ~AcceptedSample) =>
        /\ pc = "raised"
        /\ exc = "ValueError"
        /\ ret = NoReturn

\* C16 as stated: value_at_risk and conditional_value_at_risk fail with an
\* input error on an empty sample or one that is no list or array, and the
\* error reaches the caller of the core operation, also when run_backtest
\* invokes the risk function: no substitute metric value is reported.
C16_ErrorsReachCaller ==
    /\ DirectCallFails
    /\ (RiskInvoked /\ BacktestSample = <<>>) =>
          /\ pc = "raised"
          /\ exc = "ValueError"

\* C16 amended: a direct call fails with the input error; run_backtest
\* catches the error of the risk functions, returns normally and reports
\* NaN for both VaR_95 and CVaR_95, and on a non-empty sample reports the
\* value of value_at_risk at 95%.
C16_InputErrors ==
    /\ DirectCallFails
    /\ RiskInvoked =>
          /\ pc = "returned"
          /\ IF BacktestSample = <<>>
             THEN /\ IsNaN(ret.metrics.VaR_95)
                  /\ IsNaN(ret.metrics.CVaR_95)
             ELSE /\ ret.metrics.VaR_95 =
                       RNeg(Quantile(BacktestSample, <<1, 20>>))
                  /\ NotNa(ret.metrics.CVaR_95)

\* C16 witness: a NaN commission per trade makes every net return NaN, the
\* sample is empty, and the backtest returns with VaR_95 = CVaR_95 = NaN.
C16_Witness ==
    /\ RiskInvoked
    /\ df.n = 2
    /\ IsNaN(params.commission_per_trade)
    /\ BacktestSample = <<>>
    /\ pc = "returned"
    /\ IsNaN(ret.metrics.VaR_95)
    /\ IsNaN(ret.metrics.CVaR_95)

\* a direct call with an empty array fails with the input error
C16_DirectExample ==
    /\ pc = "raised"
    /\ exc = "ValueError"
    /\ op = "value_at_risk"
    /\ params.returns = Sample("ndarray", <<>>)

----------------------------------------------------------------------------
(* Claims about the option pricer, checked under SpecOpt.                  *)

Priced(name) == pc = "returned" /\ op = name

\* exp(-r T) as the library returned it
DiscountFactor == params.lib.exp[RNeg(RMul(params.r, params.T))]

\* K exp(-r T)
DiscountedStrike == RMul(params.K, DiscountFactor)

\* max(x, 0)
Floored(x) == IF RLt(x, Zero) THEN Zero ELSE x

\* sigma sqrt(T), for T > 0
SigmaRootT == RMul(params.sigma, Sqrt(params.T))

\* (ln(S/K) + (r + sigma^2 / 2) T) / (sigma sqrt(T))
D1Formula ==
    RDiv(RAdd(params.lib.log[RDiv(params.S, params.K)],
              RAdd(RMul(params.r, params.T),
                   RDiv(RMul(RMul(params.sigma, params.sigma), params.T),
                        R(2)))),
         SigmaRootT)

D2Formula == RSub(D1Formula, SigmaRootT)

\* S N(d1) - K exp(-r T) N(d2)
ClosedFormCall ==
    RSub(RMul(params.S, params.lib.cdf[D1Formula]),
         RMul(DiscountedStrike, params.lib.cdf[D2Formula]))

\* K exp(-r T) (1 - N(d2)) - S (1 - N(d1))
ClosedFormPut ==
    RSub(RMul(DiscountedStrike, RSub(One, params.lib.cdf[D2Formula])),
         RMul(params.S, RSub(One, params.lib.cdf[D1Formula])))

Expired == RLe(params.T, Zero)
NoVol == RLe(params.sigma, Zero)

\* C17: call_price and put_price return (never raise) a value that is not
\* negative; when T <= 0, whatever sigma, they return max(S - K, 0) and
\* max(K - S, 0); when T > 0 and sigma <= 0 they return
\* max(S - K exp(-rT), 0) and max(K exp(-rT) - S, 0); otherwise the
\* closed-form value floored at 0.
C17_PriceBranches ==
    /\ (pc # "ready" /\ op \in {"call_price", "put_price"}) =>
          /\ pc = "returned"
          /\ RLe(Zero, ret.value)
    /\ Priced("call_price") =>
          ret.value =
            IF Expired THEN Floored(RSub(params.S, params.K))
            ELSE IF NoVol THEN Floored(RSub(params.S, DiscountedStrike))
            ELSE Floored(ClosedFormCall)
    /\ Priced("put_price") =>
          ret.value =
            IF Expired THEN Floored(RSub(params.K, params.S))
            ELSE IF NoVol THEN Floored(RSub(DiscountedStrike, params.S))
            ELSE Floored(ClosedFormPut)

\* C17 witness: an expired call (T = -1) with sigma = -1/2 and r = 10%,
\* S = 2, K = 1: the value is the undiscounted S - K = 1.
C17_Witness ==
    /\ Priced("call_price")
    /\ params.S = R(2)
    /\ params.K = R(1)
    /\ params.T = R(-1)
    /\ params.sigma = <<-1, 2>>
    /\ params.r = <<1, 10>>
    /\ DiscountFactor # One
    /\ ret.value = One

\* a put with T > 0 and sigma = 0 that is worth the discounted intrinsic
\* value 2 * 9/10 - 1
C17_DiscountedExample ==
    /\ Priced("put_price")
    /\ params.S = R(1)
    /\ params.K = R(2)
    /\ params.T = R(1)
    /\ params.sigma = Zero
    /\ DiscountFactor = <<9, 10>>
    /\ ret.value = <<4, 5>>

\* a call on which the floor acts: the closed form is negative, 0 returned
C17_FlooredExample ==
    /\ Priced("call_price")
    /\ ~Expired
    /\ ~NoVol
    /\ RLt(ClosedFormCall, Zero)
    /\ ret.value = Zero

\* the library values keep the closed forms inside the bounds the
\* Black-Scholes value has for every S, K, T, sigma > 0:
\* call >= max(S - K exp(-rT), 0), that is, call >= 0 and put >= 0
WithinBounds ==
    /\ RLe(Zero, ClosedFormCall)
    /\ RLe(Zero, ClosedFormPut)

\* put_price on the inputs of the call
PutOnParams ==
    put_price(params.S, params.K, params.T, params.r, params.sigma,
              params.lib)

\* the amount by which the floor at 0 raises x
Lift(x) == RSub(Floored(x), x)

\* C18: for S > 0, K > 0, T > 0, sigma > 0 and any r,
\* call_price - put_price = S - K exp(-rT), the floor at 0 applied to each
\* price notwithstanding: the difference departs from S - K exp(-rT) by
\* exactly what the floor added to either price, which is nothing when the
\* library values are within the bounds of the Black-Scholes value.
C18_PutCallParity ==
    (Priced("call_price") /\ ~Expired /\ ~NoVol) =>
        /\ RSub(RSub(ret.value, PutOnParams),
                RSub(params.S, DiscountedStrike)) =
             RSub(Lift(ClosedFormCall), Lift(ClosedFormPut))
        /\ WithinBounds =>
             RSub(ret.value, PutOnParams) =
                 RSub(params.S, DiscountedStrike)

\* C18 witness: S = 1, K = 2, T = 4, sigma = 1/2, r = 10% with
\* exp(-rT) = 2/3: call - put = 1 - 4/3 = -1/3 with both prices positive.
C18_Witness ==
    /\ Priced("call_price")
    /\ params.S = R(1)
    /\ params.K = R(2)
    /\ params.T = R(4)
    /\ params.sigma = <<1, 2>>
    /\ DiscountFactor = <<2, 3>>
    /\ WithinBounds
    /\ RLt(Zero, ret.value)
    /\ RLt(Zero, PutOnParams)
    /\ RSub(ret.value, PutOnParams) = <<-1, 3>>

\* C19: call_delta is in [0, 1], put_delta in [-1, 0] and gamma >= 0 for
\* all inputs; when T <= 0 or sigma <= 0 call_delta is 1 if S > K else 0,
\* put_delta is 0 if S > K else -1, and gamma is 0.
C19_GreekRanges ==
    /\ Priced("call_delta") =>
          /\ RLe(Zero, ret.value) /\ RLe(ret.value, One)
          /\ (Expired \/ NoVol) =>
                ret.value = IF RGt(params.S, params.K) THEN One ELSE Zero
    /\ Priced("put_delta") =>
          /\ RLe(R(-1), ret.value) /\ RLe(ret.value, Zero)
          /\ (Expired \/ NoVol) =>
                ret.value = IF RGt(params.S, params.K) THEN Zero ELSE R(-1)
    /\ Priced("gamma") =>
          /\ RLe(Zero, ret.value)
          /\ (Expired \/ NoVol) => ret.value = Zero
    /\ (pc # "ready" /\ op \in {"call_delta", "put_delta", "gamma"}) =>
          pc = "returned"

\* C19 witness: an at-the-money put at expiry (S = K, T = 0, sigma > 0):
\* S > K is false, so the delta is -1.
C19_Witness ==
    /\ Priced("put_delta")
    /\ params.S = params.K
    /\ params.T = Zero
    /\ params.sigma = <<1, 2>>
    /\ ret.value = R(-1)

\* a put delta strictly inside (-1, 0), off the boundary
C19_InteriorExample ==
    /\ Priced("put_delta")
    /\ ~Expired
    /\ ~NoVol
    /\ ret.value = <<-1, 4>>

----------------------------------------------------------------------------
(* Claims about the implied-volatility solver, checked under SpecIV.       *)

\* the call has ended
Solved == pc \in {"returned", "raised"}

\* the pricing error has the same non-zero sign at both ends of the bracket
SameSignAtEnds ==
    LET fa == objective(1)
        fb == objective(GridSize)
    IN  /\ ~params.pricing_fails
        /\ NotNa(fa) /\ NotNa(fb)
        /\ \/ RLt(fa, Zero) /\ RLt(fb, Zero)
           \/ RGt(fa, Zero) /\ RGt(fb, Zero)

\* what a finished call may have produced
SolverResult ==
    /\ pc # "raised"
    /\ pc = "returned" =>
          /\ ret.kind = "float"
          /\ \/ IsNaN(ret.value)
             \/ RLe(<<1, 1000>>, ret.value) /\ RLe(ret.value, R(5))
          /\ SameSignAtEnds => IsNaN(ret.value)
          /\ work.iter = maxiter => IsNaN(ret.value)

\* C20: the implied-volatility solver always terminates and never raises:
\* it returns a volatility inside [0.001, 5.0] or NaN, and it returns NaN
\* whenever the pricing error has the same non-zero sign at both ends of
\* the bracket or the iteration limit is exhausted.
C20_SolverTerminates == []SolverResult /\ <>Solved

\* C20 witness: a bracket with a sign change on which brentq used up its
\* 100 iterations, and NaN was returned.
C20_Witness ==
    /\ pc = "returned"
    /\ work.iter = maxiter
    /\ work.raised = "RuntimeError"
    /\ ~SameSignAtEnds
    /\ IsNaN(ret.value)

\* a call that found the volatility 5/3 inside the bracket
C20_RootExample ==
    /\ pc = "returned"
    /\ work.raised = "none"
    /\ ret.value = <<5, 3>>
    /\ objective(2) = Zero

\* a market price above every model price: NaN without any iteration
C20_SameSignExample ==
    /\ pc = "returned"
    /\ SameSignAtEnds
    /\ work.iter = 0
    /\ work.raised = "ValueError"
    /\ IsNaN(ret.value)

----------------------------------------------------------------------------
(* Claims about the option strategy backtests, checked under SpecStrat.    *)

StratReturned(name) == pc = "returned" /\ op = name

\* the close of the row dated day in the caller's frame
CloseOn(day) ==
    df.col["Close"][CHOOSE t \in 1..df.n : df.index[t] = day]

\* shares * close_t + c
MarkedShares(t, c) ==
    RAdd(RMul(R(params.shares), df.col["Close"][t]), c)

\* shares * max(0, close_expiry - strike)
CallSettlement ==
    LET gain == RSub(CloseOn(work.expiry_idx[1]), params.strike_price)
    IN  RMul(R(params.shares), IF RLt(Zero, gain) THEN gain ELSE Zero)

\* C21: CoveredCall.backtest sets cash = capital - shares*entry_close +
\* shares*premium; before the resolved expiry equity_t = shares*close_t +
\* cash, on and after it equity_t = shares*close_t + cash -
\* shares*max(0, close_expiry - strike); hence with premium = 0 and
\* close_expiry <= strike the final equity is
\* shares*close_last + (capital - shares*entry_close).
C21_CoveredCallEquity ==
    StratReturned("covered_call") =>
        LET cash == RAdd(RSub(params.capital,
                              RMul(R(params.shares),
                                   CloseOn(work.entry_idx[1]))),
                         RMul(R(params.shares), params.premium))
            equity == ret.df.col["equity_curve"]
        IN  /\ work.cash = cash
            /\ Len(equity) = df.n
            /\ \A t \in 1..df.n :
                  equity[t] =
                    IF df.index[t] < work.expiry_idx[1]
                    THEN MarkedShares(t, cash)
                    ELSE MarkedShares(t, RSub(cash, CallSettlement))
            /\ (params.premium = Zero
                  /\ RLe(CloseOn(work.expiry_idx[1]), params.strike_price))
               => /\ ret.metrics.final_equity =
                       MarkedShares(df.n,
                           RSub(params.capital,
                                RMul(R(params.shares),
                                     CloseOn(work.entry_idx[1]))))
                  /\ ret.metrics.final_equity = equity[df.n]

\* a covered call settled in the money on the second of two rows
C21_Witness ==
    /\ StratReturned("covered_call")
    /\ df.n = 2
    /\ work.expiry_idx = <<df.index[2]>>
    /\ work.entry_idx = <<df.index[1]>>
    /\ params.shares = 2
    /\ RLt(Zero, ret.metrics.option_payoff_at_expiry)
    /\ ret.df.col["equity_curve"][1] # ret.df.col["equity_curve"][2]

\* a covered call with no premium whose call expires worthless
C21_WorthlessExample ==
    /\ StratReturned("covered_call")
    /\ df.n = 2
    /\ params.premium = Zero
    /\ RLt(CloseOn(work.expiry_idx[1]), params.strike_price)
    /\ work.entry_idx = <<df.index[2]>>
    /\ ret.metrics.final_equity = params.capital

\* C22: Straddle.backtest sets cash = capital - contracts*(premium_call +
\* premium_put) and on every date equity_t = cash + contracts*(max(close_t
\* - K, 0) + max(K - close_t, 0)) = cash + contracts*|close_t - K|; so
\* equity_t >= cash on every date and at most one of the two intrinsic
\* values is non-zero.
C22_StraddleEquity ==
    StratReturned("straddle") =>
        LET cash == RSub(params.capital,
                         RMul(R(params.contracts),
                              RAdd(params.premium_call, params.premium_put)))
            equity == ret.df.col["equity_curve"]
            call == ret.df.col["call_intrinsic"]
            put == ret.df.col["put_intrinsic"]
        IN  /\ work.cash = cash
            /\ Len(equity) = df.n /\ Len(call) = df.n /\ Len(put) = df.n
            /\ \A t \in 1..df.n :
                  LET up == RSub(df.col["Close"][t], params.strike_price)
                      down == RSub(params.strike_price, df.col["Close"][t])
                  IN  /\ call[t] = (IF RLt(Zero, up) THEN up ELSE Zero)
                      /\ put[t] = (IF RLt(Zero, down) THEN down ELSE Zero)
                      /\ equity[t] =
                           RAdd(cash, RMul(R(params.contracts),
                                           RAdd(call[t], put[t])))
                      /\ equity[t] =
                           RAdd(cash, RMul(R(params.contracts), RAbs(up)))
                      /\ RLe(cash, equity[t])
                      /\ call[t] = Zero \/ put[t] = Zero

\* a straddle with a row above the strike and a row below it
C22_Witness ==
    /\ StratReturned("straddle")
    /\ df.n = 2
    /\ params.contracts = 2
    /\ RLt(Zero, ret.df.col["call_intrinsic"][1])
    /\ RLt(Zero, ret.df.col["put_intrinsic"][2])
    /\ RLt(work.cash, ret.df.col["equity_curve"][2])

StratOps == {"covered_call", "straddle"}

TradingDates == {df.index[t] : t \in 1..df.n}

\* resolved is what the requested date stands for in the caller's index
ResolvedAs(requested, resolved, fallback) ==
    /\ Len(resolved) = 1
    /\ resolved[1] \in TradingDates
    /\ requested = <<>> => resolved[1] = df.index[fallback]
    /\ (requested # <<>> /\ requested[1] \in TradingDates)
          => resolved = requested
    /\ (requested # <<>> /\ requested[1] \notin TradingDates)
          => \A day \in TradingDates :
                Abs(resolved[1] - requested[1]) <= Abs(day - requested[1])

\* C23: in CoveredCall.backtest and Straddle.backtest a requested entry or
\* expiry date present in the series is used unchanged, an absent one is
\* resolved to the trading date with the smallest absolute distance to it,
\* an omitted entry date resolves to the first row and an omitted expiry
\* date to the last row.
C23_DateResolution ==
    (pc = "returned" /\ op \in StratOps) =>
        /\ ResolvedAs(params.entry_date, work.entry_idx, 1)
        /\ ResolvedAs(params.expiry_date, work.expiry_idx, df.n)

\* an absent entry date strictly closer to the later of its two neighbours
C23_Witness ==
    /\ StratReturned("covered_call")
    /\ df.n = 2
    /\ params.entry_date # <<>>
    /\ params.entry_date[1] \notin TradingDates
    /\ df.index[1] < params.entry_date[1]
    /\ params.entry_date[1] < df.index[2]
    /\ work.entry_idx = <<df.index[2]>>
    /\ params.entry_date[1] - df.index[1] > df.index[2] - params.entry_date[1]
    /\ params.expiry_date = <<>>
    /\ work.expiry_idx = <<df.index[2]>>

\* a straddle whose requested dates are both present
C23_PresentExample ==
    /\ StratReturned("straddle")
    /\ df.n = 2
    /\ params.entry_date = <<df.index[2]>>
    /\ params.expiry_date = <<df.index[1]>>
    /\ work.entry_idx = params.entry_date
    /\ work.expiry_idx = params.expiry_date

\* C24: for CoveredCall.backtest and Straddle.backtest max_drawdown is
\* computed as in run_backtest, min_t((equity_t - running_max_t) /
\* running_max_t), and is <= 0 for every price series and every choice of
\* capital, shares or contracts, strike and premiums.
C24_OptionDrawdown ==
    (pc = "returned" /\ op \in StratOps) =>
        /\ ret.metrics.max_drawdown =
              MaxDrawdown(ret.df.col["equity_curve"])
        /\ RLe(ret.metrics.max_drawdown, Zero)

\* the drawdown formula is the one of run_backtest, and the minimum is <= 0
\* unless the equity is zero on every row (0/0 on every row)
C24_NonZeroEquity ==
    (pc = "returned" /\ op \in StratOps) =>
        LET equity == ret.df.col["equity_curve"]
        IN  /\ ret.metrics.max_drawdown = MaxDrawdown(equity)
            /\ (\E t \in 1..df.n : equity[t] # Zero)
                  => RLe(ret.metrics.max_drawdown, Zero)
            /\ (\A t \in 1..df.n : equity[t] = Zero)
                  => ret.metrics.max_drawdown = NaN

\* a covered call whose equity is zero on both rows
C24_ZeroEquityExample ==
    /\ StratReturned("covered_call")
    /\ df.n = 2
    /\ ret.df.col["equity_curve"] = <<Zero, Zero>>
    /\ ret.metrics.max_drawdown = NaN

\* an equity curve falling below a zero running maximum
C24_InfiniteExample ==
    /\ pc = "returned" /\ op \in StratOps
    /\ ret.metrics.max_drawdown = NegInf

\* the call of the state with other entry and expiry dates
StraddleWithDates(entry, expiry) ==
    straddle_backtest(df, [params EXCEPT !.entry_date = entry,
                                         !.expiry_date = expiry])

\* (Every choice of the two dates is a state of SpecStrat, and each is
\* compared with the call that omits both dates.)
\* C30: the result of Straddle.backtest (equity curve, intrinsic values and
\* all metrics) does not depend on entry_date or expiry_date: two calls
\* that differ only in those two arguments return identical results, the
\* premiums being debited and the position marked from the first row to
\* the last.
C30_StraddleIgnoresDates ==
    StratReturned("straddle") =>
        /\ \E r \in {StraddleWithDates(<<>>, <<>>)} :
              r.pc = "returned" /\ r.ret = ret
        /\ \A t \in 1..df.n :
              ret.df.col["equity_curve"][t] =
                RAdd(RSub(params.capital, ret.metrics.total_premium_paid),
                     RMul(R(params.contracts),
                          RAbs(RSub(df.col["Close"][t],
                                    params.strike_price))))

\* a straddle entered on the last row and expiring on the first, with the
\* premium already debited on the first row
C30_Witness ==
    /\ StratReturned("straddle")
    /\ df.n = 2
    /\ work.entry_idx = <<df.index[2]>>
    /\ work.expiry_idx = <<df.index[1]>>
    /\ params.premium_call = One
    /\ df.col["Close"][1] = params.strike_price
    /\ RLt(ret.df.col["equity_curve"][1], params.capital)
    /\ StraddleWithDates(<<>>, <<>>).work.entry_idx # work.entry_idx

----------------------------------------------------------------------------
(* Claims about interleaved invocations, checked under SpecPure.           *)

Ended(i) == pc[i] \in {"returned", "raised"}

\* call i ended as the same call does when it runs alone on its input
AsAlone(i) ==
    \E alone \in {Invoke(df[i], params[i], fill_method)} :
       /\ pc[i] = alone.pc
       /\ exc[i] = alone.exc
       /\ ret[i] = alone.ret

\* no step writes to a caller's table or to a strategy object
InputsUntouched == df' = df /\ params' = params /\ fill_method' = fill_method

----------------------------------------------------------------------------
(* Claims about run_backtest on other inputs, checked under SpecLag.  Every *)
(* frame of the bounded domain is an initial state, so a statement about   *)
(* two inputs is checked by comparing the run of each state with the run   *)
(* on the frames that differ from it in one place; any two inputs that     *)
(* agree on a prefix are joined by a chain of such steps beyond the prefix.*)

PerDayColumns ==
    {"returns", "strategy_returns", "trade", "trade_event", "trade_cost",
     "cost_return", "net_strategy_returns", "equity_curve"}

\* the run on another frame, with the arguments of the state
RunOn(d) == run_backtest(d, params, fill_method)

\* the frame with one value of column c replaced
Replaced(c, k, v) ==
    [df EXCEPT !.col[c] = [@ EXCEPT ![k] = v]]

\* the first m rows of the frame
Truncated(m) ==
    Frame(m, [c \in Columns(df) |-> SubSeq(df.col[c], 1, m)])

\* the per-day records of the run on another frame (lines 37-71)
RecordsOn(d) ==
    BacktestColumns(SetCol(d, "returns", Returns(d, fill_method)),
                    params).frame.col

\* the run on d has the per-day records of the state on rows 1..rows
SameRecords(d, rows) ==
    \E other \in {RecordsOn(d)} :
       \A c \in PerDayColumns : \A t \in 1..rows :
          other[c][t] = ret.df.col[c][t]

\* C27: run_backtest has no look-ahead: two inputs that agree on
\* close_0..close_t and on signal_0..signal_{t-1} give identical per-day
\* records on every row <= t; in particular the signal of the last row
\* influences no per-day record and no metric.  (Rows are numbered from 1
\* here: agreement on close[1..k] and signal[1..k-1] fixes rows 1..k.)
C27_NoLookAhead ==
    Returned =>
        /\ \A k \in 1..df.n :
              /\ \A v \in LagSignals : SameRecords(Replaced("signal", k, v), k)
              /\ \A v \in LagCloses : SameRecords(Replaced("Close", k, v), k - 1)
              /\ SameRecords(Truncated(k), k)
        /\ \A v \in LagSignals \cup {NaN, R(-1)} :
              \E other \in {RunOn(Replaced("signal", df.n, v))} :
                 /\ other.pc = "returned"
                 /\ other.ret.metrics = ret.metrics
                 /\ \A c \in PerDayColumns :
                       other.ret.df.col[c] = ret.df.col[c]

\* a run whose last signal asks for a position the records never show, and
\* whose second signal already shows on the third row
C27_Witness ==
    /\ Returned
    /\ df.n = 3
    /\ df.col["signal"] = <<Zero, One, One>>
    /\ df.col["Close"] = <<R(1), R(1), R(2)>>
    /\ ret.df.col["strategy_returns"] = <<Zero, Zero, One>>
    /\ RunOn(Replaced("signal", 3, Zero)).ret.metrics = ret.metrics
    /\ RunOn(Replaced("signal", 2, Zero)).ret.df.col["strategy_returns"][3]
         # ret.df.col["strategy_returns"][3]

----------------------------------------------------------------------------
(* Claims about trades and their costs, checked under SpecCost.            *)

\* the rows on which the executed exposure differs from the row before
ExposureChanges == {t \in 2..df.n : ret.executed_pos[t] # ret.executed_pos[t - 1]}

\* C28: with a signal in {0,1} a trade is flagged on exactly the rows where
\* the executed exposure changes: for every row after the first,
\* trade_event = 1 if and only if the executed exposure differs from that of
\* the row before, so n_trades is the number of exposure changes, the
\* initial entry from a flat position (signal 1 on the first row) included.
C28_TradeOnExposureChange ==
    Returned =>
        /\ \A t \in 2..df.n :
              ret.df.col["trade_event"][t] = One <=> t \in ExposureChanges
        /\ ret.metrics.n_trades = R(Cardinality(ExposureChanges))

\* trades are flagged on the exposure changes after the second row, and on
\* the second row never: the entry decided on the first row is not flagged
C28_EntryNotFlagged ==
    Returned =>
        /\ ret.df.col["trade_event"][1] = Zero
        /\ df.n >= 2 => ret.df.col["trade_event"][2] = Zero
        /\ \A t \in 3..df.n :
              ret.df.col["trade_event"][t] = One <=> t \in ExposureChanges
        /\ ret.metrics.n_trades = R(Cardinality(ExposureChanges \ {2}))

\* buy and hold from the first row: exposed from the second row, no trade
C28_BuyAndHoldExample ==
    /\ Returned
    /\ df.n = 3
    /\ df.col["signal"] = <<One, One, One>>
    /\ ret.executed_pos = <<Zero, One, One>>
    /\ params.commission_per_trade = R(5)
    /\ ret.metrics.n_trades = Zero
    /\ ret.metrics.total_commission_paid = Zero

\* cpt + commission_pct * capital
CostOfOneTrade ==
    RAdd(params.commission_per_trade,
         RMul(params.commission_pct, params.capital))

\* C29: with a signal in {0,1}, total_commission_paid = n_trades *
\* (commission_per_trade + commission_pct * capital): every flagged trade
\* costs the same amount, whatever the price level and the equity at the
\* time of the trade.
C29_FlatCostPerTrade ==
    Returned =>
        /\ ret.metrics.total_commission_paid =
              RMul(ret.metrics.n_trades, CostOfOneTrade)
        /\ \A t \in 1..df.n :
              ret.df.col["trade_cost"][t] =
                IF ret.df.col["trade_event"][t] = One THEN CostOfOneTrade
                ELSE Zero

\* two trades, at different prices and at different equity, costing the same
C29_Witness ==
    /\ Returned
    /\ df.n = 4
    /\ ret.df.col["trade_event"] = <<Zero, Zero, One, One>>
    /\ df.col["Close"][3] # df.col["Close"][4]
    /\ ret.df.col["equity_curve"][2] # ret.df.col["equity_curve"][3]
    /\ ret.df.col["trade_cost"][3] = ret.df.col["trade_cost"][4]
    /\ ret.df.col["trade_cost"][3] = R(25)
    /\ ret.metrics.n_trades = R(2)
    /\ ret.metrics.total_commission_paid = R(50)
====
